---- MODULE Spec2Model ----
(***************************************************************************)
(* Resumable batch processing of the deal pipeline: the checkpoint store,  *)
(* the three batch loops (deal enrichment, package creation, package       *)
(* enrichment), the incremental multi-sink exporters, the bounded semantic *)
(* partitioner, the retry policy around the LLM call and the hydration of  *)
(* package details through a worker pool.                                  *)
(*                                                                         *)
(* Nine specifications share the module:                                   *)
(*   Spec            the batch loops over a checkpoint (runs, crash,       *)
(*                   resume)                                               *)
(*   SpecExport      the incremental exporters (log, table, spreadsheet)   *)
(*   SpecCluster     the partitioner, applied to every bounded assignment, *)
(*                   a second call on the same input, and create_packages  *)
(*   SpecCheckpoint  the checkpoint object and its backing file            *)
(*   SpecRetry       retry_with_backoff around generate(), and its caller  *)
(*   SpecHydrate     hydrate_package_details and its thread pool           *)
(*   SpecSchema      validate_unified_schema, applied to bounded records   *)
(*   SpecCli         stage-only runs started from the command line         *)
(*   SpecPackages    Stage 3 over a list of packages, by checkpoint key    *)
(* The variables of the specifications that are not running keep their     *)
(* idle values.                                                            *)
(***************************************************************************)
EXTENDS Integers, Sequences, FiniteSets, TLC

VARIABLES
    \* ---- batch loop (Spec) ----
    stage,              \* "deal" | "cluster" | "package": which loop runs
    continue_on_error,  \* enrich_batch's policy flag (deal stage)
    ckpt_file,          \* the checkpoint backing file: [exists, keys]
    processed_ids,      \* the checkpoint object's in-memory key set
    todo,               \* the list get_unprocessed returned for this run
    idx,                \* position of the loop in todo (enumerate, 1-based)
    pc,                 \* position of the run inside the loop body
    result,             \* outcome of the current Unit's processing
    run,                \* number of the run (1 = first)
    faults,             \* injected failures so far (capped by MaxFaults)
    attempted,          \* Units handed to the stage's processing function, this run
    invoked,            \* Units for which the external transform was called, this run
    failed,             \* Units whose processing failed, this run
    succeeded,          \* Units whose processing succeeded, this run
    export_calls,       \* Units passed to the exporter, this run
    loaded_ids,         \* the key set the checkpoint loaded at the start of this run
    save_failed,        \* a save() of this run hit an I/O error
    prev,               \* how the previous run ended: [end, failed, flushed]
    \* ---- incremental exporter (SpecExport) ----
    kind,               \* "deal" (IncrementalExporter) | "package" (EnrichedPackage...)
    jsonl,              \* the Append Log: the lines of the run's .jsonl file
    table,              \* the tabular (.tsv) or JSON-array (.json) artifact
    sheet,              \* the remote worksheet: its rows, each a sequence of cells
    ex,                 \* the exporter object's fields (alive = FALSE: no exporter lives)
    n_exports,          \* export calls so far, all exporter lifetimes together
    ex_faults,          \* sink failures injected so far (capped by MaxSinkFaults)
    last,               \* the last export call: [rec, worksheet, tried, failed, raised]
    header_writes,      \* header rows the living exporter wrote to the worksheet
    \* ---- bounded semantic partitioner (SpecCluster) ----
    cl_in,              \* the call: [mode, method, n, max_size, min_size, k, labels, probs]
    cl_out,             \* the clusters returned (a sequence of index sequences)
    cl_pc,              \* "idle" | "input" | "done" | "raised"
    cl_call,            \* number of the partitioner call on this input (0: none)
    cl_first,           \* how the first call on this input ended: [out, pc]
    cr,                 \* create_packages: [pc, idx, invoked, packages, exported, marked, saves]
    \* ---- checkpoint object and backing file (SpecCheckpoint) ----
    ck_file,            \* the backing JSON file: [state, keys, source]
    ck,                 \* the checkpoint object: [alive, ids, source_file]
    ck_op,              \* the last operation on it: [name, fp, raised]
    ck_out,             \* what the last get_unprocessed returned: [cands, result]
    ck_saved,           \* what the last save() call held: [written, valid, ids, source, own, grew]
    \* ---- retry policy around the LLM call (SpecRetry) ----
    rt_call,            \* which generate() call of the deal runs (1 = the unified one)
    rt_pc,              \* "idle" | "try" | "sleep" | "returned" | "raised" | "unit_done"
    rt_attempt,         \* the wrapper's loop variable (0-based)
    rt_delay,           \* the wrapper's current delay, in seconds
    rt_outcomes,        \* outcome of each invocation of the wrapped call, this wrapper call
    rt_waits,           \* the sleeps of this wrapper call, in seconds
    rt_raised,          \* the attempt whose exception the wrapper raised (0: none)
    rt_results,         \* how the deal's generate() calls ended so far
    rt_unit,            \* "none" | "ok" | "failed": how enrich_deal ended
    \* ---- detail hydration through the worker pool (SpecHydrate) ----
    hy_ids,             \* entity_ids: the input list of keys
    hy_pc,              \* "idle" | "submit" | "collect" | "returned" (the caller's thread)
    hy_task,            \* per input position: [st, out, gets] of its future
    hy_reordered,       \* as_completed yielded a future before one submitted earlier
    hy_bad,             \* fetches that returned no detail so far (capped by MaxBadFetches)
    hy_details,         \* the keys of the 'details' map
    \* ---- validation against the unified schema (SpecSchema) ----
    sc_data,            \* the dictionary passed to validate_unified_schema
    sc_res,             \* what the call did: [pc, is_valid, error, schema]
    \* ---- stage-only runs started from the command line (SpecCli) ----
    cli_now,            \* the wall clock, in minutes
    cli_dir,            \* the output directory: per timestamp, a checkpoint file
    cli_run,            \* the run under way: [pc, stage, n, ts, path, no_resume, loaded, ids, todo, idx]
    cli_prev,           \* the run before it: [pc, ts, saved]
    \* ---- package keys over runs of Stage 3 (SpecPackages) ----
    pk_input,           \* stage3_packages: the list of package dictionaries
    pk_file,            \* the key set in the package enrichment checkpoint file
    pk_run              \* the run: [pc, n, ids, todo, idx, enriched]

batchVars == <<stage, continue_on_error, ckpt_file, processed_ids, todo, idx, pc,
               result, run, faults, attempted, invoked, failed, succeeded,
               export_calls, loaded_ids, save_failed, prev>>

exportVars == <<kind, jsonl, table, sheet, ex, n_exports, ex_faults, last,
               header_writes>>

clusterVars == <<cl_in, cl_out, cl_pc, cl_call, cl_first, cr>>

ckVars == <<ck_file, ck, ck_op, ck_out, ck_saved>>

rtVars == <<rt_call, rt_pc, rt_attempt, rt_delay, rt_outcomes, rt_waits, rt_raised,
           rt_results, rt_unit>>

hyVars == <<hy_ids, hy_pc, hy_task, hy_reordered, hy_bad, hy_details>>

scVars == <<sc_data, sc_res>>

cliVars == <<cli_now, cli_dir, cli_run, cli_prev>>

pkVars == <<pk_input, pk_file, pk_run>>

vars == <<batchVars, exportVars, clusterVars, ckVars, rtVars, hyVars, scVars, cliVars, pkVars>>

\* ------------------------------------------------------------------ bounds
NumUnits == 12
MaxFaults == 2
MaxRuns == 2
MaxKeys == 2
MaxExports == 3
MaxSinkFaults == 1
MaxDeals == 4
MaxSize == 3
MaxCkKeys == 3
MaxCands == 3
MaxCallerDeals == 3    \* deals of the inputs on which the partitioner's callers are followed
MaxIds == 6
MaxBadFetches == 1
MaxMinute == 2
MaxPackages == 2
MaxPackageIds == 1

\* ------------------------------------------------------- program constants
DealFlushInterval == 10
ClusterFlushInterval == 5
PackageFlushInterval == 10
MinComponents == 3
ProbabilityThreshold == 3   \* 0.3, probabilities being counted in tenths
MaxRetries == 3
InitialDelay == 1
BackoffFactor == 2
FallbackCalls == 4
Seed == 42
MaxWorkers == 5

Stages == {"deal", "cluster", "package"}
Units == 1..NumUnits

\* The input list of a stage: deals, clusters (1-based index) or packages.
\* A Unit's key is the Unit's number (deal_id, cluster index, package id).
InputUnits == [i \in 1..NumUnits |-> i]

NoFile == [exists |-> FALSE, keys |-> {}]

\* --------------------------------------------------------- checkpoint store

\* EnrichmentCheckpoint._load: the file's key set, or empty without a file.
Load(file) == IF file.exists THEN file.keys ELSE {}

\* EnrichmentCheckpoint.save: the full in-memory set replaces the file;
\* an I/O error is logged and leaves the file as it was.
Save(file, ids, ok) == IF ok THEN [exists |-> TRUE, keys |-> ids] ELSE file

is_processed(ids, key) == key \in ids

\* A mark that keeps the latest key only.
mark_processed_latest(ids, key) == {key}

mark_processed(ids, key) == ids \cup {key}

\* A filter that hands back the candidates already processed.
get_processed(units, ids) == SelectSeq(units, LAMBDA u : u \in ids)

\* A resume that ignores the checkpoint: every candidate is returned.
get_unprocessed_all(units, ids) == units

\* get_unprocessed_deals / _clusters / _packages: the candidates whose key
\* is not in the set, in input order.
RECURSIVE get_unprocessed(_, _)
get_unprocessed(units, ids) ==
    IF units = <<>> THEN <<>>
    ELSE IF ~is_processed(ids, Head(units))
         THEN <<Head(units)>> \o get_unprocessed(Tail(units), ids)
         ELSE get_unprocessed(Tail(units), ids)

\* ------------------------------------------------- the incremental exporters

Keys == 1..MaxKeys

\* A cell of the worksheet or of the table.  A header cell (k = 0) reads as
\* the field name f; a data cell holds the value of field f in the record
\* exported for key k by export call number v (v = 0: uploaded before the
\* run, by an earlier stage).
Cell(f, k, v) == [f |-> f, k |-> k, v |-> v]
Blank == Cell("", 0, 0)        \* an empty cell, read back as ''
NoneCell == Cell("None", 0, 0) \* a None in a written range: the cell is left as it is

\* The flattened columns of a record (flatten_dict): a deal whose taxonomy
\* is null flattens to one column, an enriched one to a column per tier.
\* The deals of odd key are the ones with a taxonomy.
NullShape == <<"deal_id", "taxonomy">>
TierShape == <<"deal_id", "taxonomy_tier1", "taxonomy_tier2">>
PackageShape == <<"package_id", "package_name", "deal_ids">>
PreShape == <<"deal_id", "deal_name">>   \* header of the pre-enrichment upload

Shape(kd, k) ==
    IF kd = "deal" THEN (IF k % 2 = 1 THEN TierShape ELSE NullShape)
    ELSE PackageShape

HeaderRow(cols) == [i \in 1..Len(cols) |-> Cell(cols[i], 0, 0)]

\* df_row.iloc[0]: the record's values in the record's own column order.
RowValues(rec) == [i \in 1..Len(rec.cols) |-> Cell(rec.cols[i], rec.key, rec.ver)]

NoRec == [key |-> 0, ver |-> 0, cols |-> <<>>]

Max2(a, b) == IF a >= b THEN a ELSE b

RECURSIVE MaxWidth(_)
MaxWidth(rows) ==
    IF rows = <<>> THEN 0 ELSE Max2(Len(Head(rows)), MaxWidth(Tail(rows)))

\* worksheet.get_all_values(): the rows, padded with '' to one width.
GetAllValues(sh) ==
    [r \in 1..Len(sh) |->
        [i \in 1..MaxWidth(sh) |-> IF i <= Len(sh[r]) THEN sh[r][i] ELSE Blank]]

\* worksheet.update([values], 'A<r>:<col><r>'): the cells of row r under the
\* range take the values; a None leaves its cell as it is.
WriteRange(sh, r, vals) ==
    LET ext == IF Len(sh) >= r THEN sh
               ELSE sh \o [i \in 1..(r - Len(sh)) |-> <<>>]
        old == ext[r]
        new == [i \in 1..Max2(Len(old), Len(vals)) |->
                  IF i <= Len(vals) /\ vals[i] # NoneCell THEN vals[i]
                  ELSE IF i <= Len(old) THEN old[i] ELSE Blank]
    IN  [ext EXCEPT ![r] = new]

\* worksheet.insert_row(values, 1): the rows move down by one.
InsertRow(sh, vals) == <<vals>> \o sh

\* "while len(row_values) < num_cols: append(None)", then the truncation.
PadTo(vals, n) ==
    [i \in 1..n |-> IF i <= Len(vals) THEN vals[i] ELSE NoneCell]

\* The fields of an exporter object; alive = FALSE: no exporter lives.
NoMap == [k \in Keys |-> 0]

NoExporter ==
    [alive |-> FALSE, worksheet |-> FALSE,
     tsv_header_written |-> FALSE, tsv_columns |-> <<>>,
     sheets_header_written |-> FALSE, sheets_header_updated |-> FALSE,
     sheets_header_columns |-> 0, sheets_next_row |-> 2,
     deal_id_to_row |-> NoMap]

NoTable == [exists |-> FALSE, columns |-> <<>>, rows |-> <<>>]

NoCall == [rec |-> NoRec, worksheet |-> FALSE, tried |-> {}, failed |-> {},
           raised |-> FALSE]

\* The column of the header holding 'deal_id' (0: none).
DealIdCol(header) ==
    IF \E i \in 1..Len(header) : header[i] = Cell("deal_id", 0, 0)
    THEN CHOOSE i \in 1..Len(header) :
            /\ header[i] = Cell("deal_id", 0, 0)
            /\ \A j \in 1..(i - 1) : header[j] # Cell("deal_id", 0, 0)
    ELSE 0

\* The rows of existing_data[1:] that hold key k in column c.
RowsOfKey(existing, c, k) ==
    {r \in 2..Len(existing) :
        /\ c # 0
        /\ existing[r][c].f = "deal_id"
        /\ existing[r][c].k = k}

SetMax(S) == CHOOSE x \in S : \A y \in S : y <= x

\* IncrementalExporter._init_google_sheets: the deal_id -> row index built
\* from the rows the worksheet already holds (a later row wins).
BuildDealIdToRow(existing) ==
    [k \in Keys |->
        IF Len(existing) > 1 /\ RowsOfKey(existing, DealIdCol(existing[1]), k) # {}
        THEN SetMax(RowsOfKey(existing, DealIdCol(existing[1]), k))
        ELSE 0]

\* The first row reads as a header (its cells are field names).
HasHeader(existing) ==
    /\ Len(existing) > 0
    /\ \E i \in 1..Len(existing[1]) : existing[1][i].k = 0 /\ existing[1][i] # Blank

\* IncrementalExporter.__init__ and _init_google_sheets.  hdr: reading the
\* header of an existing .tsv file succeeds; when it raises, the exporter
\* goes on as if the file had no header yet.
DealConstruct(tb, sh, conn, hdr) ==
    LET existing == GetAllValues(sh)
        base == [NoExporter EXCEPT
                    !.alive = TRUE,
                    !.tsv_header_written = tb.exists /\ hdr,
                    !.tsv_columns = IF tb.exists /\ hdr THEN tb.columns ELSE <<>>]
    IN  IF ~conn THEN base
        ELSE IF Len(existing) > 1
             THEN [base EXCEPT !.worksheet = TRUE,
                               !.sheets_header_written = TRUE,
                               !.sheets_header_columns = Len(existing[1]),
                               !.deal_id_to_row = BuildDealIdToRow(existing),
                               !.sheets_next_row = Len(existing) + 1]
             ELSE IF Len(existing) = 1
                  THEN [base EXCEPT !.worksheet = TRUE,
                                    !.sheets_header_written = TRUE,
                                    !.sheets_header_columns = Len(existing[1]),
                                    !.sheets_next_row = 2]
                  ELSE [base EXCEPT !.worksheet = TRUE]

\* EnrichedPackageIncrementalExporter.__init__ and _init_google_sheets.
PackageConstruct(tb, sh, conn, hdr) ==
    LET existing == GetAllValues(sh)
        base == [NoExporter EXCEPT !.alive = TRUE]
    IN  IF ~conn THEN base
        ELSE IF Len(existing) > 1 /\ HasHeader(existing)
             THEN [base EXCEPT !.worksheet = TRUE,
                               !.sheets_header_written = TRUE,
                               !.sheets_header_columns = Len(existing[1]),
                               !.sheets_next_row = Len(existing) + 1]
             ELSE IF Len(existing) = 1 /\ HasHeader(existing)
                  THEN [base EXCEPT !.worksheet = TRUE,
                                    !.sheets_header_written = TRUE,
                                    !.sheets_header_columns = Len(existing[1]),
                                    !.sheets_next_row = 2]
                  ELSE IF Len(existing) > 0
                       THEN [base EXCEPT !.worksheet = TRUE,
                                         !.sheets_next_row = Len(existing) + 1]
                       ELSE [base EXCEPT !.worksheet = TRUE]

\* A log opened in write mode: the line replaces what the file held.
append_jsonl_truncating(lines, rec, ok) == IF ok THEN <<rec>> ELSE lines

\* _append_jsonl: the file is opened in append mode and takes one line; an
\* I/O error leaves it as it was.
append_jsonl(lines, rec, ok) == IF ok THEN Append(lines, rec) ELSE lines

\* A row written with the record's own columns, whatever the header is.
ReindexOwnColumns(rec, columns) == RowValues(rec)

\* The record's values under the given columns (DataFrame.reindex): a
\* column the record lacks is empty, a field outside the columns is dropped.
Reindex(rec, columns) ==
    [i \in 1..Len(columns) |->
        IF \E j \in 1..Len(rec.cols) : rec.cols[j] = columns[i]
        THEN Cell(columns[i], rec.key, rec.ver)
        ELSE Blank]

\* IncrementalExporter._append_tsv, returning the file and the exporter.
append_tsv(tb, e, rec, ok) ==
    IF ~ok THEN [table |-> tb, ex |-> e]
    ELSE IF ~e.tsv_header_written
         THEN [table |-> [exists |-> TRUE, columns |-> rec.cols,
                          rows |-> <<RowValues(rec)>>],
               ex |-> [e EXCEPT !.tsv_header_written = TRUE,
                                !.tsv_columns = rec.cols]]
         ELSE [table |-> [tb EXCEPT !.rows =
                            Append(@, IF e.tsv_columns # <<>>
                                      THEN Reindex(rec, e.tsv_columns)
                                      ELSE RowValues(rec))],
               ex |-> e]

\* EnrichedPackageIncrementalExporter._append_json: the array is read,
\* extended by the record and written back.
append_json(tb, e, rec, ok) ==
    IF ~ok THEN [table |-> tb, ex |-> e]
    ELSE [table |-> [exists |-> TRUE, columns |-> <<>>,
                     rows |-> Append(tb.rows, RowValues(rec))],
          ex |-> e]

\* ---------------------------------------------------------------- the loops

FlushInterval(s) ==
    CASE s = "deal" -> DealFlushInterval
      [] s = "cluster" -> ClusterFlushInterval
      [] s = "package" -> PackageFlushInterval

\* The counter each loop tests against its flush interval: the enumerate
\* index of the run (deal, package) or the cluster's own index (cluster).
FlushCounter(s, i, unit) == IF s = "cluster" THEN unit ELSE i

FlushDue(s, i, unit) == FlushCounter(s, i, unit) % FlushInterval(s) = 0

\* What processing one Unit can come to, by stage.
\*   ok         the transform answered and the answer parsed
\*   fail       the transform call failed (after its retries)
\*   malformed  the transform answered with unparsable text
\*   bad_record enrich_package met a deal whose nested section is null,
\*              before its try block (package stage)
Outcomes(s) ==
    IF s = "package" THEN {"ok", "fail", "malformed", "bad_record"}
    ELSE {"ok", "fail", "malformed"}

\* Whether the external transform is called for the outcome.
Invokes(o) == o # "bad_record"

\* Where the loop goes after processing, by stage and outcome.
AfterProcess(s, o, coe) ==
    CASE s = "deal" ->
            IF o = "ok" THEN "mark"
            ELSE IF coe THEN "loop" ELSE "aborted"
      [] s = "cluster" ->
            IF o = "ok" THEN "export" ELSE "mark"
      [] s = "package" ->
            IF o = "ok" THEN "export"
            ELSE IF o = "bad_record" THEN "aborted" ELSE "loop"

\* Where the loop goes after the export call.
AfterExport(s) == IF s = "deal" THEN "loop" ELSE "mark"

\* Where the loop goes after mark_processed (and after the periodic save).
AfterMark(s) == IF s = "deal" THEN "export" ELSE "loop"

CurrentUnit == todo[idx]

NoInput == [mode |-> "none", method |-> "none", n |-> 0, max_size |-> 0,
            min_size |-> 0, k |-> 0, labels |-> <<>>, probs |-> <<>>]

\* The exporter and the partitioner are not part of this specification.
ExportIdle ==
    /\ kind = "none"
    /\ jsonl = <<>>
    /\ table = NoTable
    /\ sheet = <<>>
    /\ ex = NoExporter
    /\ n_exports = 0
    /\ ex_faults = 0
    /\ last = NoCall
    /\ header_writes = 0

NoFirst == [out |-> <<>>, pc |-> "none"]
NoCreator == [pc |-> "idle", idx |-> 0, invoked |-> 0, packages |-> 0,
              exported |-> 0, marked |-> 0, saves |-> 0]
ClusterIdle ==
    /\ cl_in = NoInput
    /\ cl_out = <<>>
    /\ cl_pc = "idle"
    /\ cl_call = 0
    /\ cl_first = NoFirst
    /\ cr = NoCreator

\* The checkpoint object seen from its file: no object, no file.
NoSource == 0     \* source_file = None
AbsentFile == [state |-> "absent", keys |-> <<>>, source |-> NoSource]
NoCheckpoint == [alive |-> FALSE, ids |-> {}, source_file |-> NoSource]
NoOp == [name |-> "none", fp |-> "none", raised |-> FALSE]
NoOut == [cands |-> <<>>, result |-> <<>>]
NoSaved == [written |-> FALSE, valid |-> FALSE, ids |-> {}, source |-> NoSource,
            own |-> FALSE, grew |-> FALSE]

CkIdle ==
    /\ ck_file = AbsentFile
    /\ ck = NoCheckpoint
    /\ ck_op = NoOp
    /\ ck_out = NoOut
    /\ ck_saved = NoSaved

\* No deal is being enriched.
RtIdle ==
    /\ rt_call = 0
    /\ rt_pc = "idle"
    /\ rt_attempt = 0
    /\ rt_delay = 0
    /\ rt_outcomes = <<>>
    /\ rt_waits = <<>>
    /\ rt_raised = 0
    /\ rt_results = <<>>
    /\ rt_unit = "none"

\* No hydration call is under way.
HyIdle ==
    /\ hy_ids = <<>>
    /\ hy_pc = "idle"
    /\ hy_task = <<>>
    /\ hy_reordered = FALSE
    /\ hy_bad = 0
    /\ hy_details = {}

\* No dictionary is being validated.
NoData == [f \in {} |-> "absent"]

NoResult == [pc |-> "idle", is_valid |-> FALSE, error |-> {}, schema |-> NoData]

ScIdle ==
    /\ sc_data = NoData
    /\ sc_res = NoResult

\* No stage-only run was started.
Minutes == 0..MaxMinute

NoCliRun == [pc |-> "idle", stage |-> "none", n |-> 0, ts |-> 0, path |-> 0,
             no_resume |-> FALSE, loaded |-> {}, ids |-> {}, todo |-> <<>>,
             idx |-> 0]

NoPrevRun == [pc |-> "none", ts |-> 0, saved |-> {}]

CliIdle ==
    /\ cli_now = 0
    /\ cli_dir = [m \in Minutes |-> NoFile]
    /\ cli_run = NoCliRun
    /\ cli_prev = NoPrevRun

\* No list of packages is being enriched.
NoPkRun == [pc |-> "idle", n |-> 0, ids |-> {}, todo |-> <<>>, idx |-> 0,
            enriched |-> {}]

PkIdle ==
    /\ pk_input = <<>>
    /\ pk_file = {}
    /\ pk_run = NoPkRun

Init ==
    /\ stage \in Stages
    /\ continue_on_error \in BOOLEAN
    /\ (stage # "deal" => continue_on_error = TRUE)
    /\ ckpt_file = NoFile
    /\ processed_ids = {}
    /\ todo = <<>>
    /\ idx = 0
    /\ pc = "init"
    /\ result = "none"
    /\ run = 1
    /\ faults = 0
    /\ attempted = <<>>
    /\ invoked = <<>>
    /\ failed = {}
    /\ succeeded = {}
    /\ export_calls = <<>>
    /\ loaded_ids = {}
    /\ save_failed = FALSE
    /\ prev = [end |-> "none", failed |-> {}, flushed |-> FALSE]
    /\ ExportIdle
    /\ ClusterIdle
    /\ CkIdle
    /\ RtIdle
    /\ HyIdle
    /\ ScIdle
    /\ CliIdle
    /\ PkIdle

\* Construct the checkpoint over the backing file and filter the input.
StartRun ==
    /\ pc = "init"
    /\ processed_ids' = Load(ckpt_file)
    /\ loaded_ids' = Load(ckpt_file)
    /\ todo' = get_unprocessed(InputUnits, Load(ckpt_file))
    /\ idx' = 0
    /\ pc' = "loop"
    /\ UNCHANGED <<stage, continue_on_error, ckpt_file, result, run, faults,
                   attempted, invoked, failed, succeeded, export_calls,
                   save_failed, prev>>
    /\ UNCHANGED <<exportVars, clusterVars, ckVars, rtVars, hyVars, scVars, cliVars, pkVars>>

\* PROCESS: take the next Unit of the list and run the stage's processing
\* function on it.
Process(o) ==
    /\ pc = "loop"
    /\ idx < Len(todo)
    /\ o \in Outcomes(stage)
    /\ (o # "ok" => faults < MaxFaults)
    /\ idx' = idx + 1
    /\ result' = o
    /\ faults' = IF o = "ok" THEN faults ELSE faults + 1
    /\ attempted' = Append(attempted, todo[idx + 1])
    /\ invoked' = IF Invokes(o) THEN Append(invoked, todo[idx + 1]) ELSE invoked
    /\ failed' = IF o = "ok" THEN failed ELSE failed \cup {todo[idx + 1]}
    /\ succeeded' = IF o = "ok" THEN succeeded \cup {todo[idx + 1]} ELSE succeeded
    /\ pc' = AfterProcess(stage, o, continue_on_error)
    /\ UNCHANGED <<stage, continue_on_error, ckpt_file, processed_ids, todo, run,
                   export_calls, loaded_ids, save_failed, prev>>
    /\ UNCHANGED <<exportVars, clusterVars, ckVars, rtVars, hyVars, scVars, cliVars, pkVars>>

\* EXPORT: pass the Unit's record to the incremental exporter.
ExportUnit ==
    /\ pc = "export"
    /\ export_calls' = Append(export_calls, CurrentUnit)
    /\ pc' = AfterExport(stage)
    /\ UNCHANGED <<stage, continue_on_error, ckpt_file, processed_ids, todo, idx,
                   result, run, faults, attempted, invoked, failed, succeeded,
                   loaded_ids, save_failed, prev>>
    /\ UNCHANGED <<exportVars, clusterVars, ckVars, rtVars, hyVars, scVars, cliVars, pkVars>>

\* CHECKPOINT-MARK: add the Unit's key to the in-memory set.
MarkProcessed ==
    /\ pc = "mark"
    /\ processed_ids' = mark_processed(processed_ids, CurrentUnit)
    /\ pc' = IF FlushDue(stage, idx, CurrentUnit) THEN "save" ELSE AfterMark(stage)
    /\ UNCHANGED <<stage, continue_on_error, ckpt_file, todo, idx, result, run,
                   faults, attempted, invoked, failed, succeeded, export_calls,
                   loaded_ids, save_failed, prev>>
    /\ UNCHANGED <<exportVars, clusterVars, ckVars, rtVars, hyVars, scVars, cliVars, pkVars>>

\* The periodic save, every FlushInterval Units.
PeriodicSave(ok) ==
    /\ pc = "save"
    /\ (~ok => faults < MaxFaults)
    /\ ckpt_file' = Save(ckpt_file, processed_ids, ok)
    /\ save_failed' = (save_failed \/ ~ok)
    /\ faults' = IF ok THEN faults ELSE faults + 1
    /\ pc' = AfterMark(stage)
    /\ UNCHANGED <<stage, continue_on_error, processed_ids, todo, idx, result, run,
                   attempted, invoked, failed, succeeded, export_calls,
                   loaded_ids, prev>>
    /\ UNCHANGED <<exportVars, clusterVars, ckVars, rtVars, hyVars, scVars, cliVars, pkVars>>

\* Terminal FLUSH: the save after the loop.
FinalSave(ok) ==
    /\ pc = "loop"
    /\ idx = Len(todo)
    /\ (~ok => faults < MaxFaults)
    /\ ckpt_file' = Save(ckpt_file, processed_ids, ok)
    /\ save_failed' = (save_failed \/ ~ok)
    /\ faults' = IF ok THEN faults ELSE faults + 1
    /\ pc' = "done"
    /\ UNCHANGED <<stage, continue_on_error, processed_ids, todo, idx, result, run,
                   attempted, invoked, failed, succeeded, export_calls,
                   loaded_ids, prev>>
    /\ UNCHANGED <<exportVars, clusterVars, ckVars, rtVars, hyVars, scVars, cliVars, pkVars>>

\* The process dies between two steps of a run.
Crash ==
    /\ pc \in {"loop", "export", "mark", "save"}
    /\ pc' = "crashed"
    /\ UNCHANGED <<stage, continue_on_error, ckpt_file, processed_ids, todo, idx,
                   result, run, faults, attempted, invoked, failed, succeeded,
                   export_calls, loaded_ids, save_failed, prev>>
    /\ UNCHANGED <<exportVars, clusterVars, ckVars, rtVars, hyVars, scVars, cliVars, pkVars>>

\* The same stage is started again on the same input: a new process, which
\* holds nothing of the previous one but the files it left.
Rerun ==
    /\ pc \in {"done", "aborted", "crashed"}
    /\ run < MaxRuns
    /\ run' = run + 1
    /\ prev' = [end |-> pc, failed |-> failed,
                flushed |-> (ckpt_file = Save(ckpt_file, processed_ids, TRUE))]
    /\ processed_ids' = {}
    /\ loaded_ids' = {}
    /\ todo' = <<>>
    /\ idx' = 0
    /\ result' = "none"
    /\ attempted' = <<>>
    /\ invoked' = <<>>
    /\ failed' = {}
    /\ succeeded' = {}
    /\ export_calls' = <<>>
    /\ save_failed' = FALSE
    /\ pc' = "init"
    /\ UNCHANGED <<stage, continue_on_error, ckpt_file, faults>>
    /\ UNCHANGED <<exportVars, clusterVars, ckVars, rtVars, hyVars, scVars, cliVars, pkVars>>

Next ==
    \/ StartRun
    \/ \E o \in {"ok", "fail", "malformed", "bad_record"} : Process(o)
    \/ ExportUnit
    \/ MarkProcessed
    \/ \E ok \in BOOLEAN : PeriodicSave(ok)
    \/ \E ok \in BOOLEAN : FinalSave(ok)
    \/ Crash
    \/ Rerun

Spec == Init /\ [][Next]_vars

\* --------------------------------------------------- the exporter at work
\* Whether the exporter holds a row for some deal_id ("if self.deal_id_to_row").
HasEntries(m) == \E k \in Keys : m[k] # 0

\* A header check repeated on every record, whatever was written before.
HeaderPendingAlways(e) == TRUE

\* "if not self.sheets_header_updated": the header has not been rewritten
\* by this exporter yet.
HeaderPending(e) == ~e.sheets_header_updated

\* IncrementalExporter._append_to_sheets.  fp is the API call that fails in
\* this call, if any: "header" (the header update) or "row" (the row update).
\* The result is the worksheet, the exporter, whether the write raised (into
\* the method's own except clause), whether the failing call was reached and
\* the number of header rows the call wrote.
DealAppendToSheets(sh, e, rec, fp) ==
    LET existing == GetAllValues(sh)
        new_header == rec.cols
        mismatch == /\ HeaderPending(e)
                    /\ Len(existing) > 0
                    /\ existing[1] # HeaderRow(new_header)
        first == /\ HeaderPending(e)
                 /\ Len(existing) = 0
                 /\ ~e.sheets_header_written
        sh1 == IF mismatch \/ first THEN WriteRange(sh, 1, HeaderRow(new_header)) ELSE sh
        e1 == IF mismatch
              THEN [e EXCEPT !.sheets_header_updated = TRUE,
                             !.sheets_header_columns = Len(new_header)]
              ELSE IF first
                   THEN [e EXCEPT !.sheets_header_written = TRUE,
                                  !.sheets_header_updated = TRUE,
                                  !.sheets_header_columns = Len(new_header)]
                   ELSE e
        existing1 == GetAllValues(sh1)
        num_cols == IF e1.sheets_header_columns # 0 THEN e1.sheets_header_columns
                    ELSE IF Len(existing1) > 0 THEN Len(existing1[1])
                    ELSE Len(rec.cols)
        e2 == IF e1.sheets_header_columns = 0 /\ Len(existing1) = 0
              THEN [e1 EXCEPT !.sheets_header_columns = num_cols]
              ELSE e1
        row_values == PadTo(RowValues(rec), num_cols)
        target_row == IF HasEntries(e2.deal_id_to_row)
                      THEN e2.deal_id_to_row[rec.key] ELSE 0
        wrote == IF mismatch \/ first THEN 1 ELSE 0
    IN  IF (mismatch \/ first) /\ fp = "header"
        THEN [sheet |-> sh, ex |-> e, raised |-> TRUE, hit |-> TRUE, wrote |-> 0]
        ELSE IF fp = "row"
             THEN [sheet |-> sh1, ex |-> e2, raised |-> TRUE, hit |-> TRUE,
                   wrote |-> wrote]
             ELSE IF target_row # 0
                  THEN [sheet |-> WriteRange(sh1, target_row, row_values),
                        ex |-> e2, raised |-> FALSE, hit |-> FALSE,
                        wrote |-> wrote]
                  ELSE [sheet |-> WriteRange(sh1, e2.sheets_next_row, row_values),
                        ex |-> [e2 EXCEPT !.sheets_next_row = @ + 1],
                        raised |-> FALSE, hit |-> FALSE, wrote |-> wrote]

\* EnrichedPackageIncrementalExporter._append_to_sheets.  fp: "insert" (the
\* header insert_row, which falls back to writing row 1), "header" (the
\* header update of an empty sheet) or "row" (the row update).
PackageAppendToSheets(sh, e, rec, fp) ==
    LET existing == GetAllValues(sh)
        new_header == rec.cols
        writes == ~e.sheets_header_written
        inserts == writes /\ Len(existing) > 0
        sh1 == IF inserts
               THEN IF fp = "insert" THEN WriteRange(sh, 1, HeaderRow(new_header))
                    ELSE InsertRow(sh, HeaderRow(new_header))
               ELSE IF writes THEN WriteRange(sh, 1, HeaderRow(new_header))
               ELSE sh
        e1 == IF writes
              THEN [e EXCEPT !.sheets_header_written = TRUE,
                             !.sheets_header_columns = Len(new_header),
                             !.sheets_next_row =
                                  IF inserts
                                  THEN IF fp = "insert" THEN Len(existing) + 1
                                       ELSE Len(existing) + 2
                                  ELSE 2]
              ELSE IF e.sheets_header_columns # 0 THEN e
              ELSE [e EXCEPT !.sheets_header_columns =
                                IF Len(existing) > 0 THEN Len(existing[1])
                                ELSE Len(rec.cols)]
        num_cols == e1.sheets_header_columns
        row_values == PadTo(RowValues(rec), num_cols)
        wrote == IF writes THEN 1 ELSE 0
    IN  IF writes /\ ~inserts /\ fp = "header"
        THEN [sheet |-> sh, ex |-> e, raised |-> TRUE, hit |-> TRUE, wrote |-> 0]
        ELSE IF fp = "row"
             THEN [sheet |-> sh1, ex |-> e1, raised |-> TRUE, hit |-> TRUE,
                   wrote |-> wrote]
             ELSE [sheet |-> WriteRange(sh1, e1.sheets_next_row, row_values),
                   ex |-> [e1 EXCEPT !.sheets_next_row = @ + 1],
                   raised |-> FALSE, hit |-> inserts /\ fp = "insert",
                   wrote |-> wrote]

AppendToSheets(kd, sh, e, rec, fp) ==
    IF kd = "deal" THEN DealAppendToSheets(sh, e, rec, fp)
    ELSE PackageAppendToSheets(sh, e, rec, fp)

AppendTable(kd, tb, e, rec, ok) ==
    IF kd = "deal" THEN append_tsv(tb, e, rec, ok) ELSE append_json(tb, e, rec, ok)

\* A log write without its try/except: its error leaves the export call.
SwallowedButLog(sink) == sink \in {"table", "sheets"}

\* The sink writes that run inside a try/except that logs and goes on.
Swallowed(sink) == sink \in {"jsonl", "table", "sheets"}

\* export_deal / export_package: the three sink writes in turn.  A write
\* whose exception is not swallowed ends the call at that point.
ExportRecord(kd, st, rec, ok_jsonl, ok_table, fp) ==
    LET raised1 == ~ok_jsonl /\ ~Swallowed("jsonl")
        t == IF raised1 THEN [table |-> st.table, ex |-> st.ex]
             ELSE AppendTable(kd, st.table, st.ex, rec, ok_table)
        raised2 == ~raised1 /\ ~ok_table /\ ~Swallowed("table")
        to_sheets == ~raised1 /\ ~raised2 /\ t.ex.worksheet
        g == IF to_sheets THEN AppendToSheets(kd, st.sheet, t.ex, rec, fp)
             ELSE [sheet |-> st.sheet, ex |-> t.ex, raised |-> FALSE, hit |-> FALSE,
                   wrote |-> 0]
        raised3 == to_sheets /\ g.raised /\ ~Swallowed("sheets")
    IN  [jsonl |-> append_jsonl(st.jsonl, rec, ok_jsonl),
         table |-> t.table,
         sheet |-> g.sheet,
         ex |-> g.ex,
         hit |-> g.hit,
         wrote |-> g.wrote,
         call |-> [rec |-> rec,
                   worksheet |-> st.ex.worksheet,
                   tried |-> {"jsonl"}
                             \cup (IF raised1 THEN {} ELSE {"table"})
                             \cup (IF to_sheets THEN {"sheets"} ELSE {}),
                   failed |-> (IF ok_jsonl THEN {} ELSE {"jsonl"})
                              \cup (IF ~raised1 /\ ~ok_table THEN {"table"} ELSE {})
                              \cup (IF to_sheets /\ g.raised THEN {"sheets"} ELSE {}),
                   raised |-> raised1 \/ raised2 \/ raised3]]

\* The worksheets a run can find: none or an empty one, the header of the
\* pre-enrichment upload, that header with a row per uploaded deal; for
\* packages an empty sheet, a header, or rows without a header.
PreRow(k) == <<Cell("deal_id", k, 0), Cell("deal_name", k, 0)>>
OldPackageRow ==
    <<Cell("package_id", 1, 0), Cell("package_name", 1, 0), Cell("deal_ids", 1, 0)>>

InitialSheets(kd) ==
    IF kd = "deal"
    THEN {<<>>, <<HeaderRow(PreShape)>>, <<HeaderRow(PreShape), PreRow(1)>>}
    ELSE {<<>>,
          <<HeaderRow(PackageShape)>>,
          <<OldPackageRow>>}

FailPoints == {"none", "header", "insert", "row"}

Cost(ok_jsonl, ok_table, fp) ==
    (IF ok_jsonl THEN 0 ELSE 1) + (IF ok_table THEN 0 ELSE 1)
    + (IF fp = "none" THEN 0 ELSE 1)

ConstructCost(conn, hdr) == (IF conn THEN 0 ELSE 1) + (IF hdr THEN 0 ELSE 1)

BatchIdle ==
    /\ stage = "none"
    /\ continue_on_error = TRUE
    /\ ckpt_file = NoFile
    /\ processed_ids = {}
    /\ todo = <<>>
    /\ idx = 0
    /\ pc = "idle"
    /\ result = "none"
    /\ run = 0
    /\ faults = 0
    /\ attempted = <<>>
    /\ invoked = <<>>
    /\ failed = {}
    /\ succeeded = {}
    /\ export_calls = <<>>
    /\ loaded_ids = {}
    /\ save_failed = FALSE
    /\ prev = [end |-> "none", failed |-> {}, flushed |-> FALSE]

InitExport ==
    /\ kind \in {"deal", "package"}
    /\ sheet \in InitialSheets(kind)
    /\ jsonl = <<>>
    /\ table = NoTable
    /\ ex = NoExporter
    /\ n_exports = 0
    /\ ex_faults = 0
    /\ last = NoCall
    /\ header_writes = 0
    /\ BatchIdle
    /\ ClusterIdle
    /\ CkIdle
    /\ RtIdle
    /\ HyIdle
    /\ ScIdle
    /\ CliIdle
    /\ PkIdle

\* A run constructs its exporter over the artifacts it finds (same output
\* directory, same run timestamp, same spreadsheet); without a connection
\* to the spreadsheet the exporter works with the two files only.
Construct(conn, hdr) ==
    /\ ~ex.alive
    /\ ~hdr => kind = "deal" /\ table.exists
    /\ ex_faults + ConstructCost(conn, hdr) <= MaxSinkFaults
    /\ ex_faults' = ex_faults + ConstructCost(conn, hdr)
    /\ ex' = IF kind = "deal" THEN DealConstruct(table, sheet, conn, hdr)
             ELSE PackageConstruct(table, sheet, conn, hdr)
    /\ header_writes' = 0
    /\ UNCHANGED <<kind, jsonl, table, sheet, n_exports, last>>
    /\ UNCHANGED <<batchVars, clusterVars, ckVars, rtVars, hyVars, scVars, cliVars, pkVars>>

\* One export call of the batch loop; a failing worksheet call is one the
\* export reaches.
Export(key, ok_jsonl, ok_table, fp) ==
    /\ ex.alive
    /\ n_exports < MaxExports
    /\ ex_faults + Cost(ok_jsonl, ok_table, fp) <= MaxSinkFaults
    /\ LET rec == [key |-> key, ver |-> n_exports + 1, cols |-> Shape(kind, key)]
           r == ExportRecord(kind, [jsonl |-> jsonl, table |-> table,
                                    sheet |-> sheet, ex |-> ex],
                             rec, ok_jsonl, ok_table, fp)
       IN  /\ fp # "none" => r.hit
           /\ jsonl' = r.jsonl
           /\ table' = r.table
           /\ sheet' = r.sheet
           /\ ex' = r.ex
           /\ last' = r.call
           /\ header_writes' = header_writes + r.wrote
    /\ n_exports' = n_exports + 1
    /\ ex_faults' = ex_faults + Cost(ok_jsonl, ok_table, fp)
    /\ UNCHANGED kind
    /\ UNCHANGED <<batchVars, clusterVars, ckVars, rtVars, hyVars, scVars, cliVars, pkVars>>

\* The run ends (or dies): the exporter object and its sink state are gone.
Discard ==
    /\ ex.alive
    /\ ex' = NoExporter
    /\ UNCHANGED <<kind, jsonl, table, sheet, n_exports, ex_faults, last,
                   header_writes>>
    /\ UNCHANGED <<batchVars, clusterVars, ckVars, rtVars, hyVars, scVars, cliVars, pkVars>>

NextExport ==
    \/ \E conn \in BOOLEAN, hdr \in BOOLEAN : Construct(conn, hdr)
    \/ \E key \in Keys, ok_jsonl \in BOOLEAN, ok_table \in BOOLEAN,
          fp \in FailPoints :
            Export(key, ok_jsonl, ok_table, fp)
    \/ Discard

SpecExport == InitExport /\ [][NextExport]_vars

\* ------------------------------------------ the bounded semantic partitioner

Min2(a, b) == IF a <= b THEN a ELSE b

\* The target count without its cap: "max(3, len(deals) // max)" alone.
NClustersUncapped(n, max_size, min_size) == Max2(3, n \div max_size)

\* "max(3, len(deals) // max)" then "min(.., len(deals) // min)".
NClusters(n, max_size, min_size) ==
    Min2(Max2(3, n \div max_size), n \div min_size)

\* _select_optimal_components: the component counts it can return.  The
\* count with the lowest BIC among min_components..max_components is
\* returned, and min_components itself when that range is empty.
SelectOptimalComponents(n, max_components) ==
    LET cap == Min2(max_components, n \div 2)
    IN  IF cap >= MinComponents THEN MinComponents..cap ELSE {MinComponents}

\* The indices of S in ascending order.
RECURSIVE Ascending(_)
Ascending(S) ==
    IF S = {} THEN <<>>
    ELSE LET x == CHOOSE x \in S : \A y \in S : x <= y
         IN  <<x>> \o Ascending(S \ {x})

\* The labels in the order in which the loop over cluster_labels meets them
\* (the key order of the clusters dict).
RECURSIVE FirstSeen(_, _, _)
FirstSeen(labels, i, seen) ==
    IF i > Len(labels) THEN seen
    ELSE IF \E j \in 1..Len(seen) : seen[j] = labels[i]
         THEN FirstSeen(labels, i + 1, seen)
         ELSE FirstSeen(labels, i + 1, Append(seen, labels[i]))

\* A split whose slices share their boundary element: s[i:i + size + 1].
RECURSIVE ChunksOverlapping(_, _)
ChunksOverlapping(s, size) ==
    IF Len(s) <= size THEN <<s>>
    ELSE <<SubSeq(s, 1, size + 1)>>
         \o ChunksOverlapping(SubSeq(s, size + 1, Len(s)), size)

\* "for i in range(0, len(s), size): s[i:i + size]".
RECURSIVE Chunks(_, _)
Chunks(s, size) ==
    IF Len(s) <= size THEN <<s>>
    ELSE <<SubSeq(s, 1, size)>> \o Chunks(SubSeq(s, size + 1, Len(s)), size)

RECURSIVE Flatten(_)
Flatten(ss) == IF ss = <<>> THEN <<>> ELSE Head(ss) \o Flatten(Tail(ss))

\* "[c for c in final_clusters if len(c) >= min_cluster_size]".
FilterTiny(clusters, min_size) ==
    SelectSeq(clusters, LAMBDA c : Len(c) >= min_size)

\* cluster_deals_semantically from the grouping on: the groups in dict
\* order, the oversized ones split, the tiny ones dropped.
HardClusters(labels, max_size, min_size) ==
    LET order == FirstSeen(labels, 1, <<>>)
        group(l) == Ascending({i \in 1..Len(labels) : labels[i] = l})
        split == [j \in 1..Len(order) |->
                    IF Len(group(order[j])) <= max_size THEN <<group(order[j])>>
                    ELSE Chunks(group(order[j]), max_size)]
    IN  FilterTiny(Flatten(split), min_size)

\* A sort that leaves the members in index order.
SortByIndex(S, probs, c) == Ascending(S)

\* sorted(deal_indices, key=probability, reverse=True): highest probability
\* first, equal probabilities in index order.
RECURSIVE SortByProbability(_, _, _)
SortByProbability(S, probs, c) ==
    IF S = {} THEN <<>>
    ELSE LET x == CHOOSE x \in S :
                    \A y \in S : \/ probs[x][c] > probs[y][c]
                                 \/ probs[x][c] = probs[y][c] /\ x <= y
         IN  <<x>> \o SortByProbability(S \ {x}, probs, c)

\* A membership test that wants more than the threshold ("prob > threshold").
SoftClustersStrict(probs, k, max_size, min_size) ==
    LET members(c) == {i \in 1..Len(probs) : probs[i][c] > ProbabilityThreshold}
        per == [c \in 1..k |->
                  IF Cardinality(members(c)) >= min_size
                  THEN IF Cardinality(members(c)) <= max_size
                       THEN <<Ascending(members(c))>>
                       ELSE Chunks(SortByProbability(members(c), probs, c), max_size)
                  ELSE <<>>]
    IN  Flatten(per)

\* cluster_deals_with_soft_assignments from predict_proba on: one candidate
\* cluster per component, kept when it has min_size members, split in
\* probability order when it has more than max_size.
SoftClusters(probs, k, max_size, min_size) ==
    LET members(c) == {i \in 1..Len(probs) : probs[i][c] >= ProbabilityThreshold}
        per == [c \in 1..k |->
                  IF Cardinality(members(c)) >= min_size
                  THEN IF Cardinality(members(c)) <= max_size
                       THEN <<Ascending(members(c))>>
                       ELSE Chunks(SortByProbability(members(c), probs, c), max_size)
                  ELSE <<>>]
    IN  Flatten(per)

\* The rows predict_proba can give a deal, in tenths: the deal belongs to
\* one component, or to one component mostly and to the next one too.
Sure(k, c) == [d \in 1..k |-> IF d = c THEN 10 ELSE 0]
Shared(k, c) ==
    [d \in 1..k |-> IF d = c THEN 7 ELSE IF d = (c % k) + 1 THEN 3 ELSE 0]
ProbRows(k) ==
    {Sure(k, c) : c \in 1..k} \cup (IF k > 1 THEN {Shared(k, c) : c \in 1..k} ELSE {})

\* max_deals_per_cluster and min_cluster_size of a call: min <= max.
Sizes == {ms \in (1..MaxSize) \X (1..MaxSize) : ms[2] <= ms[1]}

\* The component count of a hard call: KMeans takes n_clusters, GMM the
\* count _select_optimal_components returns.
HardComponents(method, n, max_size, min_size) ==
    IF method = "kmeans" THEN {NClusters(n, max_size, min_size)}
    ELSE SelectOptimalComponents(n, NClusters(n, max_size, min_size))

\* A guard that lets every input through.
TooFewNever(n, min_size) == FALSE

\* "if len(deals) < min_cluster_size: return []", in both partitioner
\* functions and in create_packages.
TooFew(n, min_size) == n < min_size

\* A random_state that changes from call to call.
RandomStateOfCall(call) == Seed + call

\* "random_state=42" in every KMeans and GaussianMixture of the module.
RandomState(call) == Seed

\* What the fitted model answers for n deals and k components; below
\* min_size deals the function returns before any model is fitted, and a
\* model of more components than deals cannot be fitted.
Fitted(n, k, min_size) == n >= min_size /\ k >= 1 /\ k <= n
LabelAnswers(n, k, min_size) ==
    IF Fitted(n, k, min_size) THEN [1..n -> 1..k] ELSE {<<>>}
ProbAnswers(n, k, min_size) ==
    IF Fitted(n, k, min_size) THEN [1..n -> ProbRows(k)] ELSE {<<>>}

\* A call of the partitioner together with the model's answer to it.
HardCall(m, n, ms, k, l) ==
    [mode |-> "hard", method |-> m, n |-> n, max_size |-> ms[1],
     min_size |-> ms[2], k |-> k, labels |-> l, probs |-> <<>>]

SoftCall(n, ms, p) ==
    [mode |-> "soft", method |-> "gmm", n |-> n, max_size |-> ms[1],
     min_size |-> ms[2], k |-> NClusters(n, ms[1], ms[2]),
     labels |-> <<>>, probs |-> p]

InitCluster ==
    /\ \/ \E m \in {"kmeans", "gmm"}, n \in 0..MaxDeals, ms \in Sizes :
            \E k \in HardComponents(m, n, ms[1], ms[2]) :
                \E l \in LabelAnswers(n, k, ms[2]) :
                    cl_in = HardCall(m, n, ms, k, l)
       \/ \E n \in 0..MaxDeals, ms \in Sizes :
            \E p \in ProbAnswers(n, NClusters(n, ms[1], ms[2]), ms[2]) :
                cl_in = SoftCall(n, ms, p)
    /\ cl_out = <<>>
    /\ cl_pc = "input"
    /\ cl_call = 1
    /\ cl_first = NoFirst
    /\ cr = NoCreator
    /\ BatchIdle
    /\ ExportIdle
    /\ CkIdle
    /\ RtIdle
    /\ HyIdle
    /\ ScIdle
    /\ CliIdle
    /\ PkIdle

\* cluster_deals_semantically.
HardPartition ==
    /\ cl_pc = "input"
    /\ cl_in.mode = "hard"
    /\ IF TooFew(cl_in.n, cl_in.min_size)
       THEN cl_out' = <<>> /\ cl_pc' = "done"
       ELSE IF ~Fitted(cl_in.n, cl_in.k, cl_in.min_size)
            THEN cl_out' = <<>> /\ cl_pc' = "raised"
            ELSE /\ cl_out' = HardClusters(cl_in.labels, cl_in.max_size, cl_in.min_size)
                 /\ cl_pc' = "done"
    /\ UNCHANGED <<cl_in, cl_call, cl_first, cr>>
    /\ UNCHANGED <<batchVars, exportVars, ckVars, rtVars, hyVars, scVars, cliVars, pkVars>>

\* cluster_deals_with_soft_assignments.
SoftPartition ==
    /\ cl_pc = "input"
    /\ cl_in.mode = "soft"
    /\ IF TooFew(cl_in.n, cl_in.min_size)
       THEN cl_out' = <<>> /\ cl_pc' = "done"
       ELSE IF ~Fitted(cl_in.n, cl_in.k, cl_in.min_size)
            THEN cl_out' = <<>> /\ cl_pc' = "raised"
            ELSE /\ cl_out' = SoftClusters(cl_in.probs, cl_in.k, cl_in.max_size,
                                           cl_in.min_size)
                 /\ cl_pc' = "done"
    /\ UNCHANGED <<cl_in, cl_call, cl_first, cr>>
    /\ UNCHANGED <<batchVars, exportVars, ckVars, rtVars, hyVars, scVars, cliVars, pkVars>>

\* A second run calls the partitioner on the same deals, vectors and
\* parameters.  Every model is fitted with the random_state of the call: with
\* the random_state of the first call the fit gives what it gave then, with
\* another one it can give any answer.
ClusterAgain ==
    /\ cl_pc \in {"done", "raised"}
    /\ cl_call = 1
    /\ cr.pc = "idle"
    /\ cl_in.n <= MaxCallerDeals
    /\ cl_call' = 2
    /\ cl_first' = [out |-> cl_out, pc |-> cl_pc]
    /\ cl_out' = <<>>
    /\ cl_pc' = "input"
    /\ IF RandomState(2) = RandomState(1)
       THEN cl_in' = cl_in
       ELSE IF cl_in.mode = "hard"
            THEN \E k \in HardComponents(cl_in.method, cl_in.n, cl_in.max_size,
                                         cl_in.min_size) :
                    \E l \in LabelAnswers(cl_in.n, k, cl_in.min_size) :
                        cl_in' = [cl_in EXCEPT !.k = k, !.labels = l]
            ELSE \E p \in ProbAnswers(cl_in.n, cl_in.k, cl_in.min_size) :
                    cl_in' = [cl_in EXCEPT !.probs = p]
    /\ UNCHANGED cr
    /\ UNCHANGED <<batchVars, exportVars, ckVars, rtVars, hyVars, scVars, cliVars, pkVars>>

\* PackageCreator.create_packages, with a checkpoint and an exporter given:
\* "if len(deals) < self.min_cluster_size: return []"; else the partitioner
\* is called, "if not clusters: return []", and each cluster is put to the
\* LLM (proposed = FALSE: it proposes nothing), its proposals are exported,
\* the cluster is marked, every fifth cluster and at the end the checkpoint
\* is saved.
CreatePackages(proposed) ==
    /\ cr.pc = "idle"
    /\ cl_pc = "input"
    /\ cl_call = 1
    /\ cl_in.n <= MaxCallerDeals
    /\ IF TooFew(cl_in.n, cl_in.min_size)
       THEN /\ cr' = [cr EXCEPT !.pc = "returned"]
            /\ UNCHANGED <<cl_out, cl_pc>>
       ELSE IF ~Fitted(cl_in.n, cl_in.k, cl_in.min_size)
            THEN /\ cr' = [cr EXCEPT !.pc = "raised"]
                 /\ cl_out' = <<>>
                 /\ cl_pc' = "raised"
            ELSE LET clusters ==
                         IF cl_in.mode = "hard"
                         THEN HardClusters(cl_in.labels, cl_in.max_size,
                                           cl_in.min_size)
                         ELSE SoftClusters(cl_in.probs, cl_in.k, cl_in.max_size,
                                           cl_in.min_size)
                     n == Len(clusters)
                 IN  /\ cl_out' = clusters
                     /\ cl_pc' = "done"
                     /\ cr' = IF n = 0
                              THEN [cr EXCEPT !.pc = "returned"]
                              ELSE [pc |-> "returned", idx |-> n,
                                    invoked |-> n,
                                    packages |-> IF proposed THEN n ELSE 0,
                                    exported |-> IF proposed THEN n ELSE 0,
                                    marked |-> n,
                                    saves |-> n \div ClusterFlushInterval + 1]
    /\ UNCHANGED <<cl_in, cl_call, cl_first>>
    /\ UNCHANGED <<batchVars, exportVars, ckVars, rtVars, hyVars, scVars, cliVars, pkVars>>

NextCluster ==
    \/ HardPartition
    \/ SoftPartition
    \/ ClusterAgain
    \/ \E proposed \in BOOLEAN : CreatePackages(proposed)

SpecCluster == InitCluster /\ [][NextCluster]_vars

\* ------------------------------------- the checkpoint object and its file

CkKeys == 1..MaxCkKeys

\* A key list cut down to its smallest key.
FirstKeyOnly(S) ==
    IF S = {} THEN <<>> ELSE <<CHOOSE x \in S : \A y \in S : x <= y>>

\* sorted(list(self.processed_deal_ids)): the keys as an ascending list, the
\* form in which the JSON file holds them.
SortedList(S) ==
    CHOOSE q \in [1..Cardinality(S) -> S] :
        \A i, j \in 1..Cardinality(S) : i < j => q[i] < q[j]

\* set(data.get('processed_deal_ids', [])): the list read back as a set.
ToSet(q) == {q[i] : i \in 1..Len(q)}

\* The source_file argument of save(): None, a str or a Path.
SourceArgs ==
    {[t |-> "none", p |-> NoSource], [t |-> "str", p |-> 1], [t |-> "path", p |-> 2]}

\* "if source_file: self.source_file = str(source_file)".
SetSource(current, arg) == IF arg.t = "none" THEN current ELSE arg.p

CorruptFile == [state |-> "corrupt", keys |-> <<>>, source |-> NoSource]

\* The failures _load can meet: the open raises ("open"), or the content is
\* not the JSON object save() writes ("parse").  Both sit in its try block.
LoadCaught(fp) == fp \in {"open", "parse"}

\* The failures of _load that a file in the given state can produce.
LoadFailures(file) ==
    CASE file.state = "absent" -> {"none"}
      [] file.state = "corrupt" -> {"open", "parse"}
      [] file.state = "written" -> {"none", "open"}

\* _load: the object's state after construction over the file.
Loaded(file, fp) ==
    IF file.state = "absent" \/ fp # "none"
    THEN [alive |-> TRUE, ids |-> {}, source_file |-> NoSource]
    ELSE [alive |-> TRUE, ids |-> ToSet(file.keys), source_file |-> file.source]

\* A save whose json.dump is outside the try block.
SaveCaughtButDump(fp) == fp \in {"mkdir", "open"}

\* The failures save() can meet, all inside its try block: creating the
\* directory, opening the file for writing, writing the JSON text.
SaveCaught(fp) == fp \in {"mkdir", "open", "dump"}

SaveFailures == {"none", "mkdir", "open", "dump"}

\* save(): the file after the call.  The file is opened in write mode, so a
\* failure while the text is written leaves a truncated, unreadable file; a
\* failure before that leaves the file as it was.
SaveFile(file, ids, source, fp) ==
    CASE fp = "none" -> [state |-> "written", keys |-> SortedList(ids), source |-> source]
      [] fp = "dump" -> CorruptFile
      [] OTHER -> file

Injective(q) == \A i, j \in 1..Len(q) : i # j => q[i] # q[j]

\* The candidate lists handed to get_unprocessed, as the list of their
\* keys: deals (0: a deal without deal_id), clusters (the key is the 1-based
\* position in the list) and packages.
Candidates(kd) ==
    CASE kd = "deal" ->
            {q \in UNION {[1..n -> 0..MaxCkKeys] : n \in 0..MaxCands} : Injective(q)}
      [] kd = "cluster" -> {[i \in 1..n |-> i] : n \in 0..MaxCands}
      [] kd = "package" ->
            {q \in UNION {[1..n -> CkKeys] : n \in 0..MaxCands} : Injective(q)}

InitCheckpoint ==
    /\ ck_file \in {AbsentFile, CorruptFile}
    /\ ck = NoCheckpoint
    /\ ck_op = NoOp
    /\ ck_out = NoOut
    /\ ck_saved = NoSaved
    /\ BatchIdle
    /\ ExportIdle
    /\ ClusterIdle
    /\ RtIdle
    /\ HyIdle
    /\ ScIdle
    /\ CliIdle
    /\ PkIdle

\* __init__: a run constructs its checkpoint over the backing file.
CkConstruct(fp) ==
    /\ ~ck.alive
    /\ fp \in LoadFailures(ck_file)
    /\ LET raised == fp # "none" /\ ~LoadCaught(fp)
       IN  /\ ck' = IF raised THEN NoCheckpoint ELSE Loaded(ck_file, fp)
           /\ ck_op' = [name |-> "construct", fp |-> fp, raised |-> raised]
    /\ ck_out' = NoOut
    /\ ck_saved' = [ck_saved EXCEPT !.own = FALSE, !.grew = FALSE]
    /\ UNCHANGED ck_file
    /\ UNCHANGED <<batchVars, exportVars, clusterVars, rtVars, hyVars, scVars, cliVars, pkVars>>

\* A mark that also writes the set to the file.
CkMarkAndSave(key) ==
    /\ ck.alive
    /\ ck' = [ck EXCEPT !.ids = mark_processed(@, key)]
    /\ ck_file' = SaveFile(ck_file, ck'.ids, ck.source_file, "none")
    /\ ck_op' = [name |-> "mark", fp |-> "none", raised |-> FALSE]
    /\ ck_out' = NoOut
    /\ UNCHANGED ck_saved
    /\ UNCHANGED <<batchVars, exportVars, clusterVars, rtVars, hyVars, scVars, cliVars, pkVars>>

\* mark_processed(key): "self.processed_deal_ids.add(deal_id)".
CkMark(key) ==
    /\ ck.alive
    /\ ck' = [ck EXCEPT !.ids = mark_processed(@, key)]
    /\ ck_op' = [name |-> "mark", fp |-> "none", raised |-> FALSE]
    /\ ck_out' = NoOut
    /\ UNCHANGED <<ck_file, ck_saved>>
    /\ UNCHANGED <<batchVars, exportVars, clusterVars, rtVars, hyVars, scVars, cliVars, pkVars>>

\* get_unprocessed_deals / _clusters / _packages: the loops filter their
\* input with it right after constructing the checkpoint.
CkGetUnprocessed(cands) ==
    /\ ck.alive
    /\ ck_op.name = "construct"
    /\ ck_op' = [name |-> "get_unprocessed", fp |-> "none", raised |-> FALSE]
    /\ ck_out' = [cands |-> cands, result |-> get_unprocessed(cands, ck.ids)]
    /\ UNCHANGED <<ck_file, ck, ck_saved>>
    /\ UNCHANGED <<batchVars, exportVars, clusterVars, rtVars, hyVars, scVars, cliVars, pkVars>>

\* save(source_file): an uncaught failure ends the run, and the object with it.
CkSave(arg, fp) ==
    /\ ck.alive
    /\ LET source == SetSource(ck.source_file, arg)
           raised == fp # "none" /\ ~SaveCaught(fp)
       IN  /\ ck_file' = SaveFile(ck_file, ck.ids, source, fp)
           /\ ck' = IF raised THEN NoCheckpoint
                    ELSE [ck EXCEPT !.source_file = source]
           /\ ck_op' = [name |-> "save", fp |-> fp, raised |-> raised]
           /\ ck_saved' =
                CASE fp = "none" ->
                        [written |-> TRUE, valid |-> TRUE, ids |-> ck.ids,
                         source |-> source, own |-> TRUE,
                         grew |-> /\ ck_saved.own
                                  /\ ck_saved.ids \subseteq ck.ids
                                  /\ ck_saved.ids # ck.ids]
                  [] fp = "dump" ->
                        [written |-> TRUE, valid |-> FALSE, ids |-> ck.ids,
                         source |-> source, own |-> FALSE, grew |-> FALSE]
                  [] OTHER -> ck_saved
    /\ ck_out' = NoOut
    /\ UNCHANGED <<batchVars, exportVars, clusterVars, rtVars, hyVars, scVars, cliVars, pkVars>>

\* A reset that clears the object and leaves the file.
ResetFileKept(file) == file

\* "if self.checkpoint_file.exists(): self.checkpoint_file.unlink()".
ResetFile(file) == AbsentFile

\* The failures reset() can meet: the unlink of an existing file raises.
\* It is not inside a try block.
ResetFailures(file) ==
    IF file.state = "absent" THEN {"none"} ELSE {"none", "unlink"}

\* reset(): the set and the source reference are cleared, then the file is
\* removed; a failure of the removal is raised to the caller, with the
\* file left as it was.
CkReset(fp) ==
    /\ ck.alive
    /\ fp \in ResetFailures(ck_file)
    /\ IF fp = "none"
       THEN /\ ck' = [ck EXCEPT !.ids = {}, !.source_file = NoSource]
            /\ ck_file' = ResetFile(ck_file)
            /\ ck_saved' = NoSaved
       ELSE /\ ck' = NoCheckpoint
            /\ ck_file' = ck_file
            /\ ck_saved' = [ck_saved EXCEPT !.own = FALSE, !.grew = FALSE]
    /\ ck_op' = [name |-> "reset", fp |-> fp, raised |-> fp # "none"]
    /\ ck_out' = NoOut
    /\ UNCHANGED <<batchVars, exportVars, clusterVars, rtVars, hyVars, scVars, cliVars, pkVars>>

\* The run ends or dies: the object is gone, the file stays.
CkDrop ==
    /\ ck.alive
    /\ ck' = NoCheckpoint
    /\ ck_op' = [name |-> "drop", fp |-> "none", raised |-> FALSE]
    /\ ck_out' = NoOut
    /\ ck_saved' = [ck_saved EXCEPT !.own = FALSE, !.grew = FALSE]
    /\ UNCHANGED ck_file
    /\ UNCHANGED <<batchVars, exportVars, clusterVars, rtVars, hyVars, scVars, cliVars, pkVars>>

NextCheckpoint ==
    \/ \E fp \in {"none", "open", "parse"} : CkConstruct(fp)
    \/ \E key \in CkKeys : CkMark(key)
    \/ \E kd \in Stages : \E cands \in Candidates(kd) : CkGetUnprocessed(cands)
    \/ \E arg \in SourceArgs, fp \in SaveFailures : CkSave(arg, fp)
    \/ \E fp \in {"none", "unlink"} : CkReset(fp)
    \/ CkDrop

SpecCheckpoint == InitCheckpoint /\ [][NextCheckpoint]_vars

\* ------------------------------------------- the retry policy (llm_client)

\* A retry that waits the same time again.
NextDelayConstant(delay) == delay

\* "delay *= 2": exponential backoff.
NextDelay(delay) == delay * BackoffFactor

\* "if attempt < max_retries - 1": another attempt follows this failure.
RetryFollows(attempt) == attempt < MaxRetries - 1

\* The generate() calls of one deal: the unified call, then (when it fails)
\* the individual calls for taxonomy, safety, audience and commercial.
UnifiedCall == 1
LastCall == UnifiedCall + FallbackCalls

InitRetry ==
    /\ RtIdle
    /\ HyIdle
    /\ ScIdle
    /\ CliIdle
    /\ PkIdle
    /\ BatchIdle
    /\ ExportIdle
    /\ ClusterIdle
    /\ CkIdle

\* The wrapper is entered: "delay = initial_delay", first pass of the loop.
EnterWrapper(call) ==
    /\ rt_call' = call
    /\ rt_pc' = "try"
    /\ rt_attempt' = 0
    /\ rt_delay' = InitialDelay
    /\ rt_outcomes' = <<>>
    /\ rt_waits' = <<>>
    /\ rt_raised' = 0

\* enrich_deal_unified calls generate_json, which calls generate().
RtStart ==
    /\ rt_pc = "idle"
    /\ EnterWrapper(UnifiedCall)
    /\ rt_results' = <<>>
    /\ rt_unit' = "none"
    /\ UNCHANGED <<batchVars, exportVars, clusterVars, ckVars, hyVars, scVars, cliVars, pkVars>>

\* One pass of the wrapper's loop up to the sleep: the wrapped call is
\* invoked; its result is returned, or its exception is kept and either a
\* retry is scheduled or, the loop being over, the exception is raised.
RtInvoke(ok) ==
    /\ rt_pc = "try"
    /\ rt_outcomes' = Append(rt_outcomes, IF ok THEN "ok" ELSE "fail")
    /\ IF ok \/ RetryFollows(rt_attempt)
       THEN /\ rt_pc' = IF ok THEN "returned" ELSE "sleep"
            /\ UNCHANGED <<rt_attempt, rt_raised>>
       ELSE IF rt_attempt + 1 < MaxRetries
            THEN /\ rt_pc' = "try"
                 /\ rt_attempt' = rt_attempt + 1
                 /\ UNCHANGED rt_raised
            ELSE /\ rt_pc' = "raised"
                 /\ rt_raised' = Len(rt_outcomes) + 1
                 /\ UNCHANGED rt_attempt
    /\ UNCHANGED <<rt_call, rt_delay, rt_waits, rt_results, rt_unit>>
    /\ UNCHANGED <<batchVars, exportVars, clusterVars, ckVars, hyVars, scVars, cliVars, pkVars>>

\* "time.sleep(delay); delay *= 2" and the next pass of the loop, or the
\* raise of the last exception when the loop is over.
RtSleep ==
    /\ rt_pc = "sleep"
    /\ rt_waits' = Append(rt_waits, rt_delay)
    /\ rt_delay' = NextDelay(rt_delay)
    /\ rt_attempt' = rt_attempt + 1
    /\ IF rt_attempt + 1 < MaxRetries
       THEN rt_pc' = "try" /\ rt_raised' = rt_raised
       ELSE rt_pc' = "raised" /\ rt_raised' = Len(rt_outcomes)
    /\ UNCHANGED <<rt_call, rt_outcomes, rt_results, rt_unit>>
    /\ UNCHANGED <<batchVars, exportVars, clusterVars, ckVars, hyVars, scVars, cliVars, pkVars>>

\* The caller of generate(): generate_json parses the text (parsed = FALSE:
\* it raises ValueError, which is not retried).  A failure of the unified
\* call sends enrich_deal_unified to the individual calls, each of which
\* swallows its own failure; after them the record is built from a
\* 'concepts' that was never assigned, and enrich_deal raises.
RtCaller(parsed) ==
    /\ rt_pc \in {"returned", "raised"}
    /\ (rt_pc = "raised" => parsed = FALSE)
    /\ LET res == IF rt_pc = "raised" THEN "raised"
                  ELSE IF parsed THEN "ok" ELSE "malformed"
       IN  /\ rt_results' = Append(rt_results, res)
           /\ IF rt_call = UnifiedCall /\ res = "ok"
              THEN /\ rt_pc' = "unit_done"
                   /\ rt_unit' = "ok"
                   /\ UNCHANGED <<rt_call, rt_attempt, rt_delay, rt_outcomes,
                                  rt_waits, rt_raised>>
              ELSE IF rt_call < LastCall
                   THEN /\ EnterWrapper(rt_call + 1)
                        /\ rt_unit' = rt_unit
                   ELSE /\ rt_pc' = "unit_done"
                        /\ rt_unit' = "failed"
                        /\ UNCHANGED <<rt_call, rt_attempt, rt_delay, rt_outcomes,
                                       rt_waits, rt_raised>>
    /\ UNCHANGED <<batchVars, exportVars, clusterVars, ckVars, hyVars, scVars, cliVars, pkVars>>

\* enrich_batch goes on to the next deal.
RtNextUnit ==
    /\ rt_pc = "unit_done"
    /\ rt_call' = 0
    /\ rt_pc' = "idle"
    /\ rt_attempt' = 0
    /\ rt_delay' = 0
    /\ rt_outcomes' = <<>>
    /\ rt_waits' = <<>>
    /\ rt_raised' = 0
    /\ rt_results' = <<>>
    /\ rt_unit' = "none"
    /\ UNCHANGED <<batchVars, exportVars, clusterVars, ckVars, hyVars, scVars, cliVars, pkVars>>

NextRetry ==
    \/ RtStart
    \/ \E ok \in BOOLEAN : RtInvoke(ok)
    \/ RtSleep
    \/ \E parsed \in BOOLEAN : RtCaller(parsed)
    \/ RtNextUnit

SpecRetry == InitRetry /\ [][NextRetry]_vars

\* ------------------------------- detail hydration (hydrate_package_details)

\* "details[entity_id] = detail_data" with every entry but this one lost.
PutOnly(details, key) == {key}

\* "details[entity_id] = detail_data".
Put(details, key) == details \cup {key}

\* A test that keeps every detail a fetch returned, an empty one included.
KeepReturned(out) == out \in {"empty", "detail"}

\* "if detail_data:": None (a failed fetch) and an empty JSON value are
\* both false.
Keep(out) == out = "detail"

\* A pool that starts a thread for every queued call.
WorkerAlwaysFree(running) == TRUE

\* ThreadPoolExecutor(max_workers=5): a queued call is taken only by one of
\* the pool's five threads, each of which runs one call at a time.
WorkerFree(running) == Cardinality(running) < MaxWorkers

\* What fetch_single_detail can return: (id, None) after a caught failure,
\* (id, <empty JSON value>) or (id, <detail>).
FetchOutcomes == {"failed", "empty", "detail"}

\* The input positions whose call a pool thread is executing.
InFlight == {i \in 1..Len(hy_task) : hy_task[i].st = "running"}

\* The input positions whose call has been submitted and not yet taken.
Queued == {i \in 1..Len(hy_task) : hy_task[i].st = "queued"}

\* The input positions not yet submitted.
Unsubmitted == {i \in 1..Len(hy_task) : hy_task[i].st = "new"}

\* The input positions whose result the calling thread has taken.
Collected == {i \in 1..Len(hy_task) : hy_task[i].st = "collected"}

\* The entity ids of a listing: n distinct identifiers.
EntityIds(n) == [i \in 1..n |-> i]

InitHydrate ==
    /\ HyIdle
    /\ ScIdle
    /\ CliIdle
    /\ PkIdle
    /\ BatchIdle
    /\ ExportIdle
    /\ ClusterIdle
    /\ CkIdle
    /\ RtIdle

\* hydrate_package_details(entity_ids): an empty list returns {} at once;
\* otherwise the map is created empty and the pool is entered.
HyCall(n) ==
    /\ hy_pc = "idle"
    /\ hy_ids' = EntityIds(n)
    /\ hy_task' = [i \in 1..n |-> [st |-> "new", out |-> "none", gets |-> 0]]
    /\ hy_reordered' = FALSE
    /\ hy_bad' = 0
    /\ hy_details' = {}
    /\ hy_pc' = IF n = 0 THEN "returned" ELSE "submit"
    /\ UNCHANGED <<batchVars, exportVars, clusterVars, ckVars, rtVars, scVars, cliVars, pkVars>>

\* One step of the dict comprehension: executor.submit for the next id.
HySubmit ==
    /\ hy_pc = "submit"
    /\ LET i == CHOOSE j \in Unsubmitted : \A l \in Unsubmitted : j <= l
       IN  /\ hy_task' = [hy_task EXCEPT ![i].st = "queued"]
           /\ hy_pc' = IF Unsubmitted = {i} THEN "collect" ELSE "submit"
    /\ UNCHANGED <<hy_ids, hy_reordered, hy_bad, hy_details>>
    /\ UNCHANGED <<batchVars, exportVars, clusterVars, ckVars, rtVars, scVars, cliVars, pkVars>>

\* A pool thread takes the oldest queued call and enters
\* fetch_single_detail: the delay, then the one requests.get.
HyStart(i) ==
    /\ i \in Queued
    /\ \A j \in Queued : i <= j
    /\ WorkerFree(InFlight)
    /\ hy_task' = [hy_task EXCEPT ![i].st = "running", ![i].gets = @ + 1]
    /\ UNCHANGED <<hy_ids, hy_pc, hy_reordered, hy_bad, hy_details>>
    /\ UNCHANGED <<batchVars, exportVars, clusterVars, ckVars, rtVars, scVars, cliVars, pkVars>>

\* fetch_single_detail returns: the response's JSON, or None when the
\* request, the status check or the JSON decoding raised.
HyFinish(i, out) ==
    /\ i \in InFlight
    /\ out # "detail" => hy_bad < MaxBadFetches
    /\ hy_bad' = IF out # "detail" THEN hy_bad + 1 ELSE hy_bad
    /\ hy_task' = [hy_task EXCEPT ![i].st = "done", ![i].out = out]
    /\ UNCHANGED <<hy_ids, hy_pc, hy_reordered, hy_details>>
    /\ UNCHANGED <<batchVars, exportVars, clusterVars, ckVars, rtVars, scVars, cliVars, pkVars>>

\* One pass of "for future in as_completed(futures)" in the calling
\* thread: a finished future is yielded and its result is put into the map.
HyCollect(i) ==
    /\ hy_pc = "collect"
    /\ i \in 1..Len(hy_task)
    /\ hy_task[i].st = "done"
    /\ hy_task' = [hy_task EXCEPT ![i].st = "collected"]
    /\ hy_reordered' = (hy_reordered \/ \E j \in Collected : j > i)
    /\ hy_details' = IF Keep(hy_task[i].out)
                     THEN Put(hy_details, hy_ids[i])
                     ELSE hy_details
    /\ UNCHANGED <<hy_ids, hy_pc, hy_bad>>
    /\ UNCHANGED <<batchVars, exportVars, clusterVars, ckVars, rtVars, scVars, cliVars, pkVars>>

\* as_completed is exhausted, the with block shuts the pool down and the
\* map is returned.
HyReturn ==
    /\ hy_pc = "collect"
    /\ \A i \in 1..Len(hy_task) : hy_task[i].st = "collected"
    /\ hy_pc' = "returned"
    /\ UNCHANGED <<hy_ids, hy_task, hy_reordered, hy_bad, hy_details>>
    /\ UNCHANGED <<batchVars, exportVars, clusterVars, ckVars, rtVars, scVars, cliVars, pkVars>>

\* The caller goes on with the map; a later call starts afresh.
HyReset ==
    /\ hy_pc = "returned"
    /\ hy_ids' = <<>>
    /\ hy_pc' = "idle"
    /\ hy_task' = <<>>
    /\ hy_reordered' = FALSE
    /\ hy_bad' = 0
    /\ hy_details' = {}
    /\ UNCHANGED <<batchVars, exportVars, clusterVars, ckVars, rtVars, scVars, cliVars, pkVars>>

NextHydrate ==
    \/ \E n \in 0..MaxIds : HyCall(n)
    \/ HySubmit
    \/ \E i \in 1..MaxIds : HyStart(i)
    \/ \E i \in 1..MaxIds, out \in FetchOutcomes : HyFinish(i, out)
    \/ \E i \in 1..MaxIds : HyCollect(i)
    \/ HyReturn
    \/ HyReset

SpecHydrate == InitHydrate /\ [][NextHydrate]_vars

\* ---- validation against the unified schema (validate_unified_schema)

\* The kinds of value a key of the input dictionary can hold; "absent": the
\* dictionary has no such key. "note" stands for a key the schema does not
\* declare, entityId for a vendor-specific key of field_mappings.
DataSet ==
    [deal_id : {"absent", "str", "blank"},
     entityId : {"absent", "str"},
     deal_name : {"absent", "str"},
     source : {"absent", "str"},
     ssp_name : {"absent", "str", "none"},
     format : {"absent", "video", "banner", "bogus", "none"},
     publishers : {"absent", "list", "none"},
     floor_price : {"absent", "nonneg", "negative", "numstr", "badstr", "none"},
     raw_deal_data : {"absent", "dict"},
     note : {"absent", "str"}]

\* The keyword arguments normalize_to_unified_schema builds: the vendor key
\* fills the unified one when that is missing, the other keys are copied, and
\* raw_deal_data is filled with a copy of the input.
Normalized(data) ==
    [data EXCEPT
        !.deal_id = IF data.entityId # "absent" /\ @ = "absent"
                    THEN data.entityId ELSE @,
        !.entityId = "absent",
        !.raw_deal_data = IF @ = "absent" THEN "dict" ELSE @]

\* The fields declared with Field(...): no default.
RequiredFields ==
    {"deal_id", "deal_name", "source", "ssp_name", "format", "floor_price",
     "raw_deal_data"}

\* normalize_format: None and a name outside the enum are rejected, 'banner'
\* becomes 'display'.
normalize_format(v) ==
    CASE v = "video" -> "video"
      [] v = "banner" -> "display"
      [] OTHER -> "error"

\* normalize_floor_price followed by the ge=0 constraint.
normalize_floor_price(v) ==
    CASE v \in {"nonneg", "numstr"} -> "nonneg"
      [] OTHER -> "error"

\* normalize_publishers: always a list.
normalize_publishers(v) == "list"

\* normalize_ssp_name: None is rejected.
normalize_ssp_name(v) == IF v = "none" THEN "error" ELSE v

\* The fields pydantic reports for the keyword arguments n.
FieldErrors(n) ==
    {f \in RequiredFields : n[f] = "absent"}
    \cup {f \in {"ssp_name"} : n[f] # "absent" /\ normalize_ssp_name(n[f]) = "error"}
    \cup {f \in {"format"} : n[f] # "absent" /\ normalize_format(n[f]) = "error"}
    \cup {f \in {"floor_price"} :
            n[f] # "absent" /\ normalize_floor_price(n[f]) = "error"}
    \cup {f \in {"note"} : n[f] # "absent"}

\* validate_deal_id runs after the fields were accepted.
SchemaErrors(n) ==
    IF FieldErrors(n) # {} THEN FieldErrors(n)
    ELSE IF n.deal_id = "blank" THEN {"deal_id"} ELSE {}

\* The instance built from accepted keyword arguments.
SchemaInstance(n) ==
    [n EXCEPT !.format = normalize_format(@),
              !.floor_price = normalize_floor_price(@),
              !.publishers = normalize_publishers(@),
              !.ssp_name = normalize_ssp_name(@)]

\* validate_unified_schema: (is_valid, error_message, schema_instance); the
\* error message is modelled by the set of fields it names.
validate_unified_schema(data) ==
    LET n == Normalized(data)
    IN  IF SchemaErrors(n) = {}
        THEN [pc |-> "returned", is_valid |-> TRUE, error |-> {},
              schema |-> SchemaInstance(n)]
        ELSE [pc |-> "returned", is_valid |-> FALSE, error |-> SchemaErrors(n),
              schema |-> NoData]

InitSchema ==
    /\ sc_data \in DataSet
    /\ sc_res = NoResult
    /\ BatchIdle
    /\ ExportIdle
    /\ ClusterIdle
    /\ CkIdle
    /\ RtIdle
    /\ HyIdle
    /\ CliIdle
    /\ PkIdle

ScValidate ==
    /\ sc_data # NoData
    /\ sc_res.pc = "idle"
    /\ sc_res' = validate_unified_schema(sc_data)
    /\ UNCHANGED sc_data
    /\ UNCHANGED <<batchVars, exportVars, clusterVars, ckVars, rtVars, hyVars, cliVars, pkVars>>

NextSchema == ScValidate

SpecSchema == InitSchema /\ [][NextSchema]_vars

\* ---- package keys over runs of Stage 3 (get_package_id, get_unprocessed_packages)

\* The packages convert_packages_to_stage3_format hands to the loop:
\* package_id (0: None), package_name ("": empty) and the first deal ids
\* (one number for the leading three; never empty, the adapter drops a
\* package without matched deals).
PackageSet ==
    [package_id : 0..MaxPackageIds, package_name : {"", "A", "B"}, deal_ids : 1..2]

\* get_package_id: package_id, else package_name, else the leading deal ids.
get_package_id(package) ==
    IF package.package_id # 0 THEN <<"id", package.package_id>>
    ELSE IF package.package_name # "" THEN <<"name", package.package_name>>
    ELSE <<"deals", package.deal_ids>>

\* get_unprocessed_packages, as the positions of the packages it returns.
get_unprocessed_packages(packages, ids) ==
    SelectSeq([i \in 1..Len(packages) |-> i],
              LAMBDA i : ~is_processed(ids, get_package_id(packages[i])))

InitPackages ==
    /\ pk_input \in UNION {[1..n -> PackageSet] : n \in 1..MaxPackages}
    /\ \A i, j \in 1..Len(pk_input) : i # j => pk_input[i] # pk_input[j]
    /\ pk_file = {}
    /\ pk_run = [NoPkRun EXCEPT !.pc = "init", !.n = 1]
    /\ BatchIdle
    /\ ExportIdle
    /\ ClusterIdle
    /\ CkIdle
    /\ RtIdle
    /\ HyIdle
    /\ ScIdle
    /\ CliIdle

\* The checkpoint is constructed over the file and filters the list.
PkStart ==
    /\ pk_run.pc = "init"
    /\ pk_run' = [pk_run EXCEPT !.pc = "loop", !.ids = pk_file, !.idx = 0,
                                !.todo = get_unprocessed_packages(pk_input, pk_file)]
    /\ UNCHANGED <<pk_input, pk_file>>
    /\ UNCHANGED <<batchVars, exportVars, clusterVars, ckVars, rtVars, hyVars, scVars, cliVars>>

\* One pass of the loop: enrich_package, and when it answered, mark the
\* package's key.
PkEnrich(ok) ==
    /\ pk_run.pc = "loop"
    /\ pk_run.idx < Len(pk_run.todo)
    /\ LET i == pk_run.todo[pk_run.idx + 1]
       IN  pk_run' = [pk_run EXCEPT
                !.idx = @ + 1,
                !.enriched = IF ok THEN @ \cup {i} ELSE @,
                !.ids = IF ok THEN mark_processed(@, get_package_id(pk_input[i]))
                        ELSE @]
    /\ UNCHANGED <<pk_input, pk_file>>
    /\ UNCHANGED <<batchVars, exportVars, clusterVars, ckVars, rtVars, hyVars, scVars, cliVars>>

\* The save after the loop.
PkFinalSave ==
    /\ pk_run.pc = "loop"
    /\ pk_run.idx = Len(pk_run.todo)
    /\ pk_file' = pk_run.ids
    /\ pk_run' = [pk_run EXCEPT !.pc = "done"]
    /\ UNCHANGED pk_input
    /\ UNCHANGED <<batchVars, exportVars, clusterVars, ckVars, rtVars, hyVars, scVars, cliVars>>

\* The stage is run again on the same list with the same checkpoint file.
PkRerun ==
    /\ pk_run.pc = "done"
    /\ pk_run.n < MaxRuns
    /\ pk_run' = [pk_run EXCEPT !.pc = "init", !.n = @ + 1, !.ids = {},
                                !.todo = <<>>, !.idx = 0]
    /\ UNCHANGED <<pk_input, pk_file>>
    /\ UNCHANGED <<batchVars, exportVars, clusterVars, ckVars, rtVars, hyVars, scVars, cliVars>>

NextPackages ==
    \/ PkStart
    \/ \E ok \in BOOLEAN : PkEnrich(ok)
    \/ PkFinalSave
    \/ PkRerun

SpecPackages == InitPackages /\ [][NextPackages]_vars

\* ---- stage-only runs from the command line (--stage-2, --stage-3)

\* datetime.now().strftime("%Y-%m-%dT%H%M"): the timestamp names the minute.
Timestamp(now) == now

\* output_dir / f"<stage>_checkpoint_{timestamp}.json": the file the run
\* names, among the checkpoint files of the directory.
CheckpointPath(ts) == ts

InitCli ==
    /\ cli_now = 0
    /\ cli_dir = [m \in Minutes |-> NoFile]
    /\ \E s \in {"cluster", "package"} : cli_run = [NoCliRun EXCEPT !.stage = s, !.n = 1]
    /\ cli_prev = NoPrevRun
    /\ BatchIdle
    /\ ExportIdle
    /\ ClusterIdle
    /\ CkIdle
    /\ RtIdle
    /\ HyIdle
    /\ ScIdle
    /\ PkIdle

\* The clock passes into the next minute.
CliTick ==
    /\ cli_now < MaxMinute
    /\ cli_now' = cli_now + 1
    /\ UNCHANGED <<cli_dir, cli_run, cli_prev>>
    /\ UNCHANGED <<batchVars, exportVars, clusterVars, ckVars, rtVars, hyVars, scVars, pkVars>>

\* main() and run_stage_2_only / run_stage_3_only up to the loop: the
\* timestamp, the checkpoint file's name, the --no-resume deletion, the
\* checkpoint constructed over the file and the input filtered with it.
CliStart(no_resume) ==
    /\ cli_run.pc = "idle"
    /\ cli_run.n > 0
    /\ LET ts == Timestamp(cli_now)
           path == CheckpointPath(ts)
           dir == IF no_resume /\ cli_dir[path].exists
                  THEN [cli_dir EXCEPT ![path] = NoFile] ELSE cli_dir
       IN  /\ cli_dir' = dir
           /\ cli_run' = [cli_run EXCEPT
                            !.pc = "loop", !.ts = ts, !.path = path,
                            !.no_resume = no_resume,
                            !.loaded = Load(dir[path]),
                            !.ids = Load(dir[path]),
                            !.todo = get_unprocessed(InputUnits, Load(dir[path])),
                            !.idx = 0]
    /\ UNCHANGED <<cli_now, cli_prev>>
    /\ UNCHANGED <<batchVars, exportVars, clusterVars, ckVars, rtVars, hyVars, scVars, pkVars>>

\* One pass of the stage's loop: the Unit is processed and marked, and the
\* checkpoint is saved when the flush interval is reached.
CliUnit ==
    /\ cli_run.pc = "loop"
    /\ cli_run.idx < Len(cli_run.todo)
    /\ LET i == cli_run.idx + 1
           unit == cli_run.todo[i]
           ids == mark_processed(cli_run.ids, unit)
       IN  /\ cli_run' = [cli_run EXCEPT !.idx = i, !.ids = ids]
           /\ cli_dir' = IF FlushDue(cli_run.stage, i, unit)
                         THEN [cli_dir EXCEPT ![cli_run.path] = Save(@, ids, TRUE)]
                         ELSE cli_dir
    /\ UNCHANGED <<cli_now, cli_prev>>
    /\ UNCHANGED <<batchVars, exportVars, clusterVars, ckVars, rtVars, hyVars, scVars, pkVars>>

\* The save after the loop; the run ends.
CliFinish ==
    /\ cli_run.pc = "loop"
    /\ cli_run.idx = Len(cli_run.todo)
    /\ cli_dir' = [cli_dir EXCEPT ![cli_run.path] = Save(@, cli_run.ids, TRUE)]
    /\ cli_run' = [cli_run EXCEPT !.pc = "done"]
    /\ UNCHANGED <<cli_now, cli_prev>>
    /\ UNCHANGED <<batchVars, exportVars, clusterVars, ckVars, rtVars, hyVars, scVars, pkVars>>

\* The run is interrupted inside the loop (the process is killed).
CliInterrupt ==
    /\ cli_run.pc = "loop"
    /\ cli_run' = [cli_run EXCEPT !.pc = "interrupted"]
    /\ UNCHANGED <<cli_now, cli_dir, cli_prev>>
    /\ UNCHANGED <<batchVars, exportVars, clusterVars, ckVars, rtVars, hyVars, scVars, pkVars>>

\* The same stage is started again from the command line on the same input.
CliAgain ==
    /\ cli_run.pc \in {"interrupted", "done"}
    /\ cli_run.n < MaxRuns
    /\ cli_prev' = [pc |-> cli_run.pc, ts |-> cli_run.path,
                    saved |-> Load(cli_dir[cli_run.path])]
    /\ cli_run' = [NoCliRun EXCEPT !.stage = cli_run.stage, !.n = cli_run.n + 1]
    /\ UNCHANGED <<cli_now, cli_dir>>
    /\ UNCHANGED <<batchVars, exportVars, clusterVars, ckVars, rtVars, hyVars, scVars, pkVars>>

NextCli ==
    \/ CliTick
    \/ \E no_resume \in BOOLEAN : CliStart(no_resume)
    \/ CliUnit
    \/ CliFinish
    \/ CliInterrupt
    \/ CliAgain

SpecCli == InitCli /\ [][NextCli]_vars

\* ------------------------------------------------------------------ helpers

InSeq(x, s) == \E i \in 1..Len(s) : s[i] = x

\* The run follows the default policy: only enrich_batch can be told to abort.
DefaultPolicy == stage = "deal" => continue_on_error

\* The previous run ended normally and left a checkpoint file holding all it marked.
AfterCleanRun == run > 1 /\ prev.end = "done" /\ prev.flushed

\* Keys marked in memory that the checkpoint file does not hold.
Unsaved == processed_ids \ Load(ckpt_file)

\* ------------------------------------------------------------------- claims

C2_FailedUnitUnmarked == \A u \in failed : ~is_processed(processed_ids, u)

\* C3: a successful Unit's key is in the processed set only after the Unit's
\* record was passed to the exporter.
C3_ExportBeforeMark ==
    \A u \in succeeded : is_processed(processed_ids, u) => InSeq(u, export_calls)

\* C4: while no save fails, the keys marked in memory and absent from the
\* checkpoint file number at most the stage's flush interval.
C4_UnsavedWithinInterval ==
    ~save_failed => Cardinality(Unsaved) <= FlushInterval(stage)

\* C5: when the loop has ended, by exhausting the input or by aborting on a
\* Unit failure under continue_on_error=False, the checkpoint file holds
\* every key marked during the run (no save having failed).
C5_EndsWithSave ==
    (/\ \/ pc = "done"
        \/ (pc = "aborted" /\ stage = "deal" /\ ~continue_on_error)
     /\ ~save_failed)
    => Unsaved = {}

\* C6: under the default policy no Unit failure aborts the run, and a run
\* that ended has attempted every Unit get_unprocessed returned, once each
\* and in input order.
C6_DefaultNeverAborts ==
    DefaultPolicy =>
        /\ pc # "aborted"
        /\ (pc = "done" => attempted = todo)

\* The rows of the worksheet that hold a record of key k (its key cell).
KeyRows(k) ==
    {r \in 1..Len(sheet) :
        \E i \in 1..Len(sheet[r]) :
            /\ sheet[r][i].f \in {"deal_id", "package_id"}
            /\ sheet[r][i].k = k}

\* C7: after any sequence of export calls, within one run or across resumed
\* runs, the spreadsheet holds at most one data row per Unit Key.
C7_OneRowPerKey == \A k \in Keys : Cardinality(KeyRows(k)) <= 1

C9_SinkFailuresContained ==
    last.rec # NoRec =>
        /\ ~last.raised
        /\ {"jsonl", "table"} \subseteq last.tried
        /\ (last.worksheet => "sheets" \in last.tried)

\* An export whose log write failed and whose spreadsheet write was still
\* made (the record has its row), and one whose spreadsheet write failed.
C9_Witness ==
    /\ last.failed = {"jsonl"}
    /\ last.worksheet
    /\ KeyRows(last.rec.key) # {}
    /\ n_exports >= 2

\* C10: every cluster the partitioner returns, in hard mode and in soft
\* mode, chunks of a split cluster included, has between min_size and
\* max_size members.
C10_ClusterSizesInBounds ==
    cl_pc = "done" =>
        \A j \in 1..Len(cl_out) :
            /\ Len(cl_out[j]) >= cl_in.min_size
            /\ Len(cl_out[j]) <= cl_in.max_size

\* The returned clusters that hold input index i.
ClustersOf(i) ==
    {j \in 1..Len(cl_out) : \E q \in 1..Len(cl_out[j]) : cl_out[j][q] = i}

\* The components in which deal i reaches the probability threshold, and
\* among them those that at least min_size deals reach it in.
ComponentsOf(i) ==
    {c \in 1..cl_in.k : cl_in.probs[i][c] >= ProbabilityThreshold}
Populated(c) ==
    Cardinality({i \in 1..cl_in.n : cl_in.probs[i][c] >= ProbabilityThreshold})
        >= cl_in.min_size

SoftDone == cl_pc = "done" /\ cl_in.mode = "soft" /\ cl_in.n >= cl_in.min_size
HardDone == cl_pc = "done" /\ cl_in.mode = "hard" /\ cl_in.n >= cl_in.min_size

\* C11 (as stated): in soft mode every item with probability >= 0.3 in two
\* or more components appears in two or more returned clusters.
C11_OverlapInTwoClusters ==
    SoftDone =>
        \A i \in 1..cl_in.n :
            Cardinality(ComponentsOf(i)) >= 2 => Cardinality(ClustersOf(i)) >= 2

\* C11 (amended): in soft mode an item appears in exactly one returned
\* cluster for each component in which its probability is >= 0.3 and which
\* at least min_size items reach that threshold in; so an item with two or
\* more such components appears in two or more returned clusters.
C11_OverlapInPopulatedComponents ==
    SoftDone =>
        \A i \in 1..cl_in.n :
            Cardinality(ClustersOf(i))
                = Cardinality({c \in ComponentsOf(i) : Populated(c)})

\* An item shared by two populated components, one of which was split.
C11_Witness ==
    /\ SoftDone
    /\ \E i \in 1..cl_in.n :
          /\ Cardinality({c \in ComponentsOf(i) : Populated(c)}) >= 2
          /\ Cardinality(ClustersOf(i)) >= 2
    /\ Len(cl_out) >= 3

\* The label group of input index i, in index order, and the size of the
\* chunk of it that holds i once the group is split by max_size.
GroupOf(i) == {j \in 1..cl_in.n : cl_in.labels[j] = cl_in.labels[i]}
ChunkSizeOf(i) ==
    LET g == Cardinality(GroupOf(i))
        before == Cardinality({j \in GroupOf(i) : j < i})
        start == (before \div cl_in.max_size) * cl_in.max_size
    IN  IF g <= cl_in.max_size THEN g ELSE Min2(cl_in.max_size, g - start)

\* C12 (as stated): in hard mode every input index is in exactly one
\* returned cluster.
C12_ExactlyOneCluster ==
    HardDone => \A i \in 1..cl_in.n : Cardinality(ClustersOf(i)) = 1

\* C12 (amended): in hard mode no input index is in two returned clusters
\* or twice in one, and an index is in a returned cluster exactly when its
\* label group, after the split by max_size, leaves it in a chunk of at
\* least min_size members; the indices of dropped chunks are in no cluster.
C12_AtMostOneCluster ==
    HardDone =>
        /\ \A i \in 1..cl_in.n :
              Cardinality(ClustersOf(i))
                  = (IF ChunkSizeOf(i) >= cl_in.min_size THEN 1 ELSE 0)
        /\ \A j \in 1..Len(cl_out) :
              \A q, r \in 1..Len(cl_out[j]) : cl_out[j][q] = cl_out[j][r] => q = r

\* A hard call whose split kept one chunk and dropped another.
C12_Witness ==
    /\ HardDone
    /\ \E i, j \in 1..cl_in.n :
          /\ cl_in.labels[i] = cl_in.labels[j]
          /\ Cardinality(ClustersOf(i)) = 1
          /\ Cardinality(ClustersOf(j)) = 0

\* C13: in hard mode the component count fitted for an auto-selecting call
\* is at most min(max(3, N // max_size), N // min_size), so that
\* N // k >= min_size.
C13_ComponentsWithinCap ==
    (cl_in.mode = "hard" /\ Fitted(cl_in.n, cl_in.k, cl_in.min_size)) =>
        /\ cl_in.k <= NClusters(cl_in.n, cl_in.max_size, cl_in.min_size)
        /\ cl_in.n \div cl_in.k >= cl_in.min_size

\* A row of the table written under the given columns: as many cells as
\* columns, each empty or the value of that column's field.
RowUnder(row, columns) ==
    /\ Len(row) = Len(columns)
    /\ \A i \in 1..Len(row) : row[i] = Blank \/ row[i].f = columns[i]

\* The exporter of this run could not read the header of the existing file.
HeaderUnread == ex.alive /\ table.exists /\ ~ex.tsv_header_written

\* C14 (as stated): the column set of the tabular artifact is fixed by the
\* first record written, or by the existing file's header on resume: once
\* the file exists its columns never change, and every row has exactly
\* those columns in that order (a missing field empty, an extra one dropped).
C14_ColumnsFixed ==
    [][(kind = "deal" /\ table.exists) =>
            /\ table'.columns = table.columns
            /\ \A i \in 1..Len(table'.rows) : RowUnder(table'.rows[i], table'.columns)
            /\ \A i \in 1..Len(table.rows) : table'.rows[i] = table.rows[i]]_vars

\* C14 (amended): the same, except for an exporter that failed to read the
\* existing file's header at construction: its first table write starts the
\* file over with that record's columns and that record as the only row.
C14_ColumnsFixedWhenHeaderRead ==
    [][(kind = "deal" /\ table.exists) =>
            IF HeaderUnread /\ table' # table
            THEN /\ table'.columns = last'.rec.cols
                 /\ table'.rows = <<RowValues(last'.rec)>>
            ELSE /\ table'.columns = table.columns
                 /\ \A i \in 1..Len(table'.rows) :
                        RowUnder(table'.rows[i], table'.columns)
                 /\ \A i \in 1..Len(table.rows) : table'.rows[i] = table.rows[i]]_vars

\* A later record with other fields was written under the first record's
\* columns: its missing fields are empty and its extra field is absent.
C14_Witness ==
    /\ kind = "deal"
    /\ table.exists
    /\ Len(table.rows) >= 2
    /\ last.rec.cols # table.columns
    /\ "table" \in last.tried /\ "table" \notin last.failed
    /\ table.rows[Len(table.rows)] = Reindex(last.rec, table.columns)
    /\ \E i \in 1..Len(table.columns) : table.rows[Len(table.rows)][i] = Blank

\* C15: within one exporter lifetime the header row of the worksheet is
\* written at most once, however many records are exported and however
\* their columns differ from the sheet's header.
C15_HeaderWrittenAtMostOnce == header_writes <= 1

\* The exporter wrote the header once, and a later export whose columns
\* differ from the sheet's header went through without rewriting it.
C15_Witness ==
    /\ ex.alive
    /\ header_writes = 1
    /\ Len(sheet) > 0
    /\ sheet[1] # HeaderRow(last.rec.cols)
    /\ "sheets" \in last.tried /\ "sheets" \notin last.failed

\* C16: within a checkpoint object's lifetime the processed-key set only
\* grows (no operation but reset() removes a key), and the key sets that
\* successive saves of the object write to the file are non-decreasing.
C16_KeySetOnlyGrows ==
    [][/\ (ck.alive /\ ck'.alive /\ ck_op'.name # "reset") => ck.ids \subseteq ck'.ids
       /\ (ck_op'.name = "save" /\ ck_saved.own /\ ck_saved'.valid) =>
                ck_saved.ids \subseteq ToSet(ck_file'.keys)]_vars

\* A second save of the same object wrote a strictly larger key set.
C16_Witness ==
    /\ ck_op.name = "save"
    /\ ck.alive
    /\ ck_saved.valid
    /\ ck_saved.grew
    /\ ToSet(ck_file.keys) = ck.ids

\* C17: get_unprocessed returns exactly the candidates whose key is not in
\* the processed set, in input order, and leaves the checkpoint (object and
\* file) unchanged.
C17_GetUnprocessedFilters ==
    [][ck_op'.name = "get_unprocessed" =>
            /\ ck' = ck
            /\ ck_file' = ck_file
            /\ ck_out'.result = SelectSeq(ck_out'.cands, LAMBDA u : u \notin ck.ids)]_vars

\* processed = {A, B}, candidates [A, B, C]: the answer is [C].
C17_Witness ==
    /\ ck_op.name = "get_unprocessed"
    /\ ck.ids = {1, 2}
    /\ ck_out.cands = <<1, 2, 3>>
    /\ ck_out.result = <<3>>

\* C18: checkpoint I/O failure is never fatal: constructing over a missing,
\* unreadable or corrupt file gives an object with an empty set and does
\* not raise, and a failed save() does not raise either.
C18_CheckpointIONeverFatal ==
    /\ ck_op.name \in {"construct", "save"} => ~ck_op.raised
    /\ (ck_op.name = "construct" /\ (ck_file.state # "written" \/ ck_op.fp # "none")) =>
            (ck.alive /\ ck.ids = {})
    /\ (ck_op.name = "save" => ck.alive)

\* A save failed on the way, the run went on to its end, and the next run
\* constructed its checkpoint over the unreadable file it left.
C18_Witness ==
    /\ ck_op.name = "construct"
    /\ ck_op.fp = "parse"
    /\ ck_file.state = "corrupt"
    /\ ck_saved.written /\ ~ck_saved.valid /\ ck_saved.ids # {}
    /\ ck.alive
    /\ ck.ids = {}

\* C19 (as stated): a checkpoint constructed on a file last written by a
\* save() call has exactly the key set and the source-file reference the
\* saving checkpoint held at that call; constructed where no file exists it
\* is empty.
C19_SaveLoadIdentity ==
    ck_op.name = "construct" =>
        /\ ck_saved.written =>
                (ck.ids = ck_saved.ids /\ ck.source_file = ck_saved.source)
        /\ ck_file.state = "absent" =>
                (ck.ids = {} /\ ck.source_file = NoSource)

\* C19 (amended): the same for a save() whose write went through and a file
\* the constructor can read; in every other case the new checkpoint is empty.
C19_CompletedSaveLoadIdentity ==
    ck_op.name = "construct" =>
        IF ck_saved.valid /\ ck_op.fp = "none"
        THEN ck.ids = ck_saved.ids /\ ck.source_file = ck_saved.source
        ELSE ck.ids = {} /\ ck.source_file = NoSource

C19_Witness ==
    /\ ck_op.name = "construct"
    /\ ck_op.fp = "none"
    /\ ck_saved.valid
    /\ Cardinality(ck.ids) >= 2
    /\ ck.ids = ck_saved.ids
    /\ ck.source_file # NoSource

\* The results a sequence holds.
Range(q) == {q[i] : i \in 1..Len(q)}

\* C20: the retry policy invokes the wrapped call at most 3 times; it
\* returns the first successful result without a further attempt; it waits
\* 1 s after the first failure and 2 s after the second and not after the
\* last; after a third failure it raises that failure, and the deal fails.
C20_BoundedRetryWithBackoff ==
    /\ Len(rt_outcomes) <= 3
    /\ \A i \in 1..(Len(rt_outcomes) - 1) : rt_outcomes[i] = "fail"
    /\ rt_waits \in {<<>>, <<1>>, <<1, 2>>}
    /\ rt_pc = "try" => Len(rt_waits) = Len(rt_outcomes)
    /\ rt_pc = "sleep" =>
            /\ rt_outcomes[Len(rt_outcomes)] = "fail"
            /\ Len(rt_waits) = Len(rt_outcomes) - 1
            /\ Len(rt_outcomes) < 3
    /\ rt_pc = "returned" =>
            /\ rt_outcomes[Len(rt_outcomes)] = "ok"
            /\ Len(rt_waits) = Len(rt_outcomes) - 1
            /\ rt_raised = 0
    /\ rt_pc = "raised" =>
            /\ rt_outcomes = <<"fail", "fail", "fail">>
            /\ rt_waits = <<1, 2>>
            /\ rt_raised = 3
    /\ (rt_unit = "ok" => "raised" \notin Range(rt_results))
    /\ (rt_pc = "unit_done" /\ "raised" \in Range(rt_results)) => rt_unit = "failed"

\* The deal failed after its unified call was given up on at the third
\* failure, two waits having been made.
C20_Witness ==
    /\ rt_pc = "raised"
    /\ rt_call = UnifiedCall
    /\ Len(rt_outcomes) = 3
    /\ rt_waits = <<1, 2>>
    /\ rt_raised = 3

\* C21: a malformed (unparsable) response is not retried: once a call of a
\* deal has produced one, no further LLM call is made for that deal in the
\* run, and the deal is reported as failed.
C21_MalformedEndsUnit ==
    \A i \in 1..Len(rt_results) :
        rt_results[i] = "malformed" =>
            /\ i = Len(rt_results)
            /\ rt_call = i
            /\ rt_pc = "unit_done"
            /\ rt_unit = "failed"

\* The hydration call has returned its map.
HyReturned == hy_pc = "returned"

\* The keys whose fetch ended with the given outcomes.
KeysWith(outs) == {hy_ids[i] : i \in {j \in 1..Len(hy_task) : hy_task[j].out \in outs}}

\* C22: a failed detail fetch for one key never aborts hydration: the call
\* completes every other key's fetch, and the map it returns holds exactly
\* the keys whose fetch succeeded and none of the keys whose fetch failed.
C22_MapHoldsSucceededKeys ==
    HyReturned =>
        /\ \A i \in 1..Len(hy_task) : hy_task[i].st = "collected"
        /\ hy_details = KeysWith({"empty", "detail"})
        /\ hy_details \cap KeysWith({"failed"}) = {}

\* C22, as the code has it: the map holds exactly the keys whose fetch
\* returned a non-empty detail; a key whose fetch failed, or returned an
\* empty value, is absent, and no such fetch keeps another from completing.
C22_MapHoldsDetailedKeys ==
    /\ hy_details = {hy_ids[i] : i \in {j \in Collected : hy_task[j].out = "detail"}}
    /\ HyReturned =>
        /\ \A i \in 1..Len(hy_task) : hy_task[i].st = "collected"
        /\ hy_details = KeysWith({"detail"})
        /\ hy_details \cap KeysWith({"failed", "empty"}) = {}

\* A call over six keys has returned, one fetch having failed: the other
\* five keys are in the map.
C22_Witness ==
    /\ HyReturned
    /\ Len(hy_ids) = 6
    /\ Cardinality(KeysWith({"failed"})) = 1
    /\ Cardinality(hy_details) = 5

\* C23: at most 5 fetches are in flight at any instant, exactly one fetch
\* is issued for each key of the input list, and the call returns only
\* after every issued fetch has completed.
C23_BoundedPoolOneFetchPerKey ==
    /\ Cardinality(InFlight) <= 5
    /\ Len(hy_task) = Len(hy_ids)
    /\ \A i \in 1..Len(hy_task) :
          /\ hy_task[i].gets <= 1
          /\ hy_task[i].gets = 1 <=> hy_task[i].st \in {"running", "done", "collected"}
    /\ HyReturned =>
          \A i \in 1..Len(hy_task) :
              /\ hy_task[i].gets = 1
              /\ hy_task[i].st = "collected"
              /\ hy_task[i].out \in FetchOutcomes

\* Five fetches are in flight and a sixth, submitted, waits for a thread.
C23_Witness ==
    /\ Cardinality(InFlight) = 5
    /\ Queued # {}
    /\ hy_pc = "collect"

\* C24: the map hydration returns is the same for every order in which the
\* workers complete: it is determined by each key's fetch outcome alone,
\* and it is changed only by the calling thread, one collected result at a
\* time; no step of a pool thread touches it.
C24_MapIndependentOfOrder ==
    [][ /\ hy_pc' = "returned" => hy_details' = KeysWith({"detail"})'
        /\ (\E i \in 1..Len(hy_task) :
               /\ hy_task[i].st \in {"queued", "running"}
               /\ hy_task'[i].st # hy_task[i].st) => hy_details' = hy_details
        /\ hy_details' # hy_details =>
              \/ hy_pc = "idle" \/ hy_pc = "returned"
              \/ /\ hy_pc = "collect"
                 /\ \E i \in 1..Len(hy_task) :
                       /\ hy_task[i].st = "done"
                       /\ hy_task'[i].st = "collected"
                       /\ hy_details' = hy_details \cup {hy_ids[i]} ]_vars

\* A call has returned a map of several keys after collecting results out
\* of submission order, one fetch having failed.
C24_Witness ==
    /\ HyReturned
    /\ hy_reordered
    /\ Cardinality(hy_details) >= 2
    /\ KeysWith({"failed"}) # {}

PolicyFixed == cl_in.mode = "soft" \/ cl_in.method = "kmeans"

\* min(max(3, N // max_size), N // min_size), written out.
TargetCount(n, max_size, min_size) ==
    LET wanted == IF n \div max_size > 3 THEN n \div max_size ELSE 3
        cap == n \div min_size
    IN  IF cap < wanted THEN cap ELSE wanted

\* The computed count over every N, max_size and min_size within the
\* bounds, max_size < min_size included.
TargetCountEverywhere ==
    \A n \in 1..MaxDeals, max_size \in 1..MaxSize, min_size \in 1..MaxSize :
        n >= min_size =>
            LET k == NClusters(n, max_size, min_size)
            IN  /\ k = TargetCount(n, max_size, min_size)
                /\ k >= 1
                /\ n \div k >= min_size

\* C26: for all N >= min_size >= 1 and max_size >= 1, the component count
\* of a call whose count is fixed by policy equals
\* min(max(3, N // max_size), N // min_size), is at least 1, and satisfies
\* N // k >= min_size.
C26_TargetComponentCount ==
    /\ (cl_pc \in {"input", "done", "raised"} /\ PolicyFixed
        /\ cl_in.n >= cl_in.min_size) =>
            /\ cl_in.k = TargetCount(cl_in.n, cl_in.max_size, cl_in.min_size)
            /\ cl_in.k >= 1
            /\ cl_in.n \div cl_in.k >= cl_in.min_size
    /\ TargetCountEverywhere

\* A k-means call over four deals with min_size 2 has returned: the cap
\* 4 // 2 = 2 is below 3, and two components were fitted.
C26_Witness ==
    /\ cl_pc = "done"
    /\ cl_in.mode = "hard"
    /\ cl_in.method = "kmeans"
    /\ cl_in.n = 4
    /\ cl_in.min_size = 2
    /\ cl_in.k = 2
    /\ Len(cl_out) = 2

\* The members the fitted model gave label l, and those it gave component c
\* with at least the threshold probability.
MembersOfLabel(l) == {i \in 1..cl_in.n : cl_in.labels[i] = l}
MembersOfComponent(c) ==
    {i \in 1..cl_in.n : cl_in.probs[i][c] >= ProbabilityThreshold}

\* The number of chunks a list of g members is cut into, and the size of
\* the last of them.
NumChunks(g) == (g + cl_in.max_size - 1) \div cl_in.max_size
LastSize(g) == g - (NumChunks(g) - 1) * cl_in.max_size

\* The cnt clusters returned after position p, concatenated.
Run(p, cnt) == Flatten([c \in 1..cnt |-> cl_out[p + c]])

\* C27: a cluster exceeding max_size is cut into consecutive chunks of its
\* member list, taken in ascending index order in hard mode and in
\* descending probability order in soft mode: every chunk but the last has
\* exactly max_size members, and the chunks, concatenated in output order,
\* are the member list, no member lost or duplicated by the cut.  (In hard
\* mode the filter that follows the cut drops a last chunk below min_size.)
C27_SplitIntoConsecutiveChunks ==
    /\ HardDone =>
        \A l \in 1..cl_in.k :
            LET M == MembersOfLabel(l)
                g == Cardinality(M)
                kept == IF LastSize(g) >= cl_in.min_size
                        THEN NumChunks(g) ELSE NumChunks(g) - 1
            IN  g > cl_in.max_size =>
                  \E p \in 0..(Len(cl_out) - kept) :
                      LET F == Run(p, kept)
                      IN  /\ \A c \in 1..kept :
                                Len(cl_out[p + c]) =
                                    IF c < NumChunks(g) THEN cl_in.max_size
                                    ELSE LastSize(g)
                          /\ Range(F) \subseteq M
                          /\ \A a, b \in 1..Len(F) : a < b => F[a] < F[b]
                          /\ \A x \in M \ Range(F) : \A y \in Range(F) : y < x
                          /\ kept = NumChunks(g) => Range(F) = M
    /\ SoftDone =>
        \A c \in 1..cl_in.k :
            LET M == MembersOfComponent(c)
                g == Cardinality(M)
            IN  (g >= cl_in.min_size /\ g > cl_in.max_size) =>
                  \E p \in 0..(Len(cl_out) - NumChunks(g)) :
                      LET F == Run(p, NumChunks(g))
                      IN  /\ \A j \in 1..NumChunks(g) :
                                Len(cl_out[p + j]) =
                                    IF j < NumChunks(g) THEN cl_in.max_size
                                    ELSE LastSize(g)
                          /\ Range(F) = M
                          /\ Len(F) = g
                          /\ \A a, b \in 1..Len(F) :
                                a < b => cl_in.probs[F[a]][c] >= cl_in.probs[F[b]][c]

\* A soft call has cut a component of three members, max_size being 2: the
\* member of highest probability is not the one of lowest index.
C27_Witness ==
    /\ SoftDone
    /\ cl_in.max_size = 2
    /\ \E c \in 1..cl_in.k :
          /\ Cardinality(MembersOfComponent(c)) = 3
          /\ \E p \in 0..(Len(cl_out) - 2) :
                /\ Len(cl_out[p + 1]) = 2
                /\ Len(cl_out[p + 2]) = 1
                /\ Range(cl_out[p + 1]) \cup Range(cl_out[p + 2]) = MembersOfComponent(c)
                /\ cl_out[p + 1][1] > cl_out[p + 2][1]

\* C28: with fewer input deals than min_size the partitioner returns zero
\* clusters in both modes, and create_packages returns no packages without
\* calling the LLM, exporting anything, or marking or saving the
\* checkpoint.
C28_TooFewDealsNothingDone ==
    cl_in.n < cl_in.min_size =>
        /\ cl_pc \in {"input", "done"}
        /\ cl_out = <<>>
        /\ cr.pc \in {"idle", "returned"}
        /\ cr.invoked = 0
        /\ cr.packages = 0
        /\ cr.exported = 0
        /\ cr.marked = 0
        /\ cr.saves = 0

\* create_packages has returned on two deals where min_size is 3, and the
\* partitioner, called on them, has returned as well.
C28_Witness ==
    /\ cl_in.n = 2
    /\ cl_in.min_size = 3
    /\ cr.pc = "returned"
    /\ cl_pc = "done"

\* C29: mark(key) changes only the in-memory set: over any number of mark
\* calls the backing file stays as it is, until save() is called, and
\* marking a key that is already marked changes nothing.
C29_MarkTouchesMemoryOnly ==
    [][ck_op'.name = "mark" =>
            /\ ck_file' = ck_file
            /\ ck_saved' = ck_saved
            /\ ck'.alive
            /\ ck'.source_file = ck.source_file
            /\ \E key \in CkKeys : ck'.ids = ck.ids \cup {key}
            /\ \A key \in CkKeys : (CkMark(key) /\ key \in ck.ids) => ck' = ck]_vars

\* Two keys were marked after a save that wrote one: the file still holds
\* the one.
C29_Witness ==
    /\ ck_op.name = "mark"
    /\ ck_file.state = "written"
    /\ Len(ck_file.keys) = 1
    /\ Cardinality(ck.ids) = 3
    /\ ck_saved.own

\* C30: after reset() the processed set is empty, is_processed is false
\* for every key, the backing file no longer exists, and a checkpoint then
\* loaded from that path is empty.
C30_ResetClearsSetAndFile ==
    [][ /\ (ck_op'.name = "reset" /\ ~ck_op'.raised) =>
              /\ ck'.alive
              /\ ck'.ids = {}
              /\ ck'.source_file = NoSource
              /\ \A key \in CkKeys : ~is_processed(ck'.ids, key)
              /\ ck_file'.state = "absent"
              /\ \A fp \in LoadFailures(ck_file') : Loaded(ck_file', fp).ids = {}
        /\ (ck_op.name \in {"reset", "drop"} /\ ck_file.state = "absent"
            /\ ck_op'.name = "construct") =>
              /\ ck'.alive
              /\ ck'.ids = {}
              /\ ck'.source_file = NoSource ]_vars

\* A checkpoint holding two keys, saved to its file, has been reset.
C30_Witness ==
    /\ ck_op.name = "reset"
    /\ ~ck_op.raised
    /\ ck.alive
    /\ ck.ids = {}
    /\ ck_file.state = "absent"
    /\ ck_saved = NoSaved

\* The dictionary supplies every field the claim lists, each with a valid
\* value, and no key the schema does not declare.
ListedFieldsSupplied ==
    /\ sc_data.deal_id = "str"
    /\ sc_data.deal_name = "str"
    /\ sc_data.ssp_name = "str"
    /\ sc_data.format = "video"
    /\ sc_data.publishers = "list"
    /\ sc_data.floor_price = "nonneg"
    /\ sc_data.raw_deal_data = "dict"
    /\ sc_data.note = "absent"

\* C31 (as stated): validate_unified_schema returns (True, None, schema
\* instance) for a record supplying deal_id, deal_name, ssp_name, a valid
\* format, publishers, a non-negative floor_price and raw_deal_data, and
\* (False, error message, None) for a record missing required fields.
C31_ListedFieldsValidate ==
    sc_res.pc = "returned" =>
        /\ ListedFieldsSupplied =>
              sc_res.is_valid /\ sc_res.error = {} /\ sc_res.schema # NoData
        /\ (\E f \in RequiredFields : Normalized(sc_data)[f] = "absent") =>
              ~sc_res.is_valid /\ sc_res.error # {} /\ sc_res.schema = NoData

\* C32 (as stated): in the deal-enrichment and package-enrichment stages, at
\* every point of a run started over an empty directory, a crash point
\* included, every key the checkpoint file holds belongs to a Unit whose
\* record was handed to the exporter and so stands in the append log.
C32_SavedKeysAreLogged ==
    (run = 1 /\ stage \in {"deal", "package"}) =>
        \A u \in Load(ckpt_file) : InSeq(u, export_calls)

\* C33 (as stated): distinct packages of one input list never share a
\* checkpoint key, so that whenever a run has filtered the list with
\* get_unprocessed_packages, every package that was never itself enriched
\* and marked is among the packages returned.
C33_UnenrichedPackageReturned ==
    pk_run.pc = "loop" =>
        \A i \in 1..Len(pk_input) : i \notin pk_run.enriched => InSeq(i, pk_run.todo)

\* The rows of the worksheet that hold a cell written by the last export call.
RowsOfLastExport ==
    {r \in 1..Len(sheet) : \E i \in 1..Len(sheet[r]) : sheet[r][i].v = last.rec.ver}

\* The last export call wrote its record to the worksheet.
LastReachedSheet ==
    /\ last.rec # NoRec
    /\ "sheets" \in last.tried
    /\ "sheets" \notin last.failed

\* C34 (as stated): a row written to the spreadsheet has exactly as many
\* cells as the header row has columns, and the cell under each header
\* column holds the record's value for the field of that name, or is empty
\* when the record lacks that field.
C34_RowAlignedWithHeader ==
    LastReachedSheet =>
        \A r \in RowsOfLastExport :
            /\ Len(sheet[r]) = Len(sheet[1])
            /\ \A i \in 1..Len(sheet[r]) :
                  sheet[r][i] = Reindex(last.rec, [j \in 1..Len(sheet[1]) |-> sheet[1][j].f])[i]

\* The sinks after exporting the records of a list, in order, through one
\* exporter constructed over an empty log, no table and the worksheet sh0,
\* no write failing.
RECURSIVE ExportAll(_, _, _)
ExportAll(kd, st, recs) ==
    IF recs = <<>> THEN st
    ELSE LET r == ExportRecord(kd, st, Head(recs), TRUE, TRUE, "none")
         IN  ExportAll(kd, [jsonl |-> r.jsonl, table |-> r.table, sheet |-> r.sheet,
                            ex |-> r.ex], Tail(recs))

OneExporter(kd, sh0, recs) ==
    ExportAll(kd,
              [jsonl |-> <<>>, table |-> NoTable, sheet |-> sh0,
               ex |-> IF kd = "deal" THEN DealConstruct(NoTable, sh0, TRUE, TRUE)
                      ELSE PackageConstruct(NoTable, sh0, TRUE, TRUE)],
              recs)

\* C35 (as stated): with no sink failing, the log, the table and the
\* worksheet left by exporting a sequence of records, the exporter being
\* discarded and constructed again between any two of them, are those that
\* one exporter leaves after the same records (the log holds the sequence),
\* started on one of the worksheets a run can find.
C35_ResumeEqualsOneExporter ==
    (ex_faults = 0 /\ n_exports > 0) =>
        \E sh0 \in InitialSheets(kind) :
            LET one == OneExporter(kind, sh0, jsonl)
            IN  /\ one.jsonl = jsonl
                /\ one.table = table
                /\ one.sheet = sheet

\* The rows of a worksheet that hold data (a cell of some record).
DataRows(sh) == {r \in 1..Len(sh) : \E i \in 1..Len(sh[r]) : sh[r][i].k # 0}

\* The step is an export call that reached the worksheet write.
SheetStep == n_exports' = n_exports + 1 /\ "sheets" \in last'.tried

\* The row the step wrote for its record (0: none).
AppendedRow ==
    IF \E r \in 1..Len(sheet') : \E i \in 1..Len(sheet'[r]) : sheet'[r][i].v = last'.rec.ver
    THEN CHOOSE r \in 1..Len(sheet') :
            \E i \in 1..Len(sheet'[r]) : sheet'[r][i].v = last'.rec.ver
    ELSE 0

\* The record's key is indexed: the call overwrites that row in place.
InPlace == kind = "deal" /\ HasEntries(ex.deal_id_to_row) /\ ex.deal_id_to_row[last'.rec.key] # 0

\* C36 (as stated): an export call that appends to the worksheet leaves
\* every row that held data holding the same cells, writes its row below
\* all of them, and the cursor advances by one when the append succeeded
\* and not at all when it failed.
C36_AppendBelowCursorByOne ==
    [][(SheetStep /\ ~InPlace) =>
          /\ \A r \in DataRows(sheet) : \E q \in DataRows(sheet') : sheet'[q] = sheet[r]
          /\ AppendedRow # 0 => \A q \in DataRows(sheet') : q <= AppendedRow
          /\ ex'.sheets_next_row =
                ex.sheets_next_row + (IF "sheets" \in last'.failed THEN 0 ELSE 1)]_vars

\* C37 (as stated): a Stage 2 or Stage 3 run started from the command line
\* after an interrupted run of the same stage on the same input, without
\* the start-fresh flag, loads the checkpoint file the interrupted run wrote
\* and skips the Units recorded in it.
C37_ResumeLoadsInterruptedRun ==
    (/\ cli_prev.pc = "interrupted"
     /\ cli_run.pc \in {"loop", "interrupted", "done"}
     /\ ~cli_run.no_resume)
    => /\ cli_run.loaded = cli_prev.saved
       /\ \A u \in cli_prev.saved : ~InSeq(u, cli_run.todo)

\* The invocations of the LLM that the finished generate() calls of the
\* deal made at least: three when the wrapper raised, one otherwise.
RECURSIVE InvocationsOf(_)
InvocationsOf(results) ==
    IF results = <<>> THEN 0
    ELSE (IF Head(results) = "raised" THEN MaxRetries ELSE 1)
         + InvocationsOf(Tail(results))

\* The invocations made so far for the deal, at least: those of the
\* finished calls and those of the call under way.
UnitInvocations ==
    InvocationsOf(rt_results)
    + (IF Len(rt_results) < rt_call THEN Len(rt_outcomes) ELSE 0)

\* C38 (as stated): a Unit incurs at most 3 invocations of the external
\* transform in one run, whether the calls succeed, fail transiently or
\* return malformed output.
C38_AtMostThreeInvocationsPerUnit == UnitInvocations <= 3
====
